---- MODULE Spec2Model ----
(***************************************************************************)
(* The Decomposition engine (DecompositionServer): the problem and         *)
(* component stores, the dependency graph with its cycle guard, the        *)
(* structural metrics and the phase history, as one state machine whose    *)
(* actions are the cases of processRequest.                                *)
(***************************************************************************)
EXTENDS Integers, Sequences, FiniteSets, TLC

VARIABLES
    problems,             \* state.problems: own keys -> ProblemData
    components,           \* state.components: ComponentData in key insertion order
    decompositionPhases,  \* state.decompositionPhases
    currentPhaseIndex,    \* state.currentPhaseIndex (0-based, -1 when none)
    now,                  \* the value Date.now() returns
    last,                 \* the last request and the envelope it got
    toolCall,             \* the call a stateless sibling tool serves, and its result
    branching,            \* the state of the branching-exploration server
    inFlight              \* requests the transport holds, and handlers not yet returned

vars == <<problems, components, decompositionPhases, currentPhaseIndex, now, last, toolCall,
          branching, inFlight>>

(***************************************************************************)
(* Bounds of the model.                                                    *)
(***************************************************************************)
MaxTime == 1      \* the clock runs from 0 to MaxTime
MaxPhases == 1    \* startPhase is explored while the history is shorter
MaxDeps == 1      \* longest dependencies array a payload carries
MaxNodes == 3     \* longest node list given to the cycle-detection tool
MaxEdges == 3     \* longest edge list given to the cycle-detection tool
MaxInFlight == 2  \* most requests the transport holds at a time

(***************************************************************************)
(* Values.                                                                 *)
(***************************************************************************)
\* A timestamp that is undefined (completedAt of an open phase, createdAt
\* read from an inherited property).
NoTime == -1

\* complexity defaults to 5 when the payload gives none.
DefaultComplexity == 5

\* state.problems and state.components are object literals: a key lookup
\* also finds the properties inherited from Object.prototype.  One of them
\* stands for all.
InheritedKeys == {"constructor"}

Max(a, b) == IF a >= b THEN a ELSE b

RECURSIVE Gcd(_, _)
Gcd(a, b) == IF b = 0 THEN a ELSE Gcd(b, a % b)

\* A quotient of two integers (den > 0), in lowest terms.
Fraction(num, den) == LET g == Gcd(num, den) IN [num |-> num \div g, den |-> den \div g]

(***************************************************************************)
(* Key lookups.                                                            *)
(***************************************************************************)
\* this.state.problems[id] is truthy
ProblemTruthy(ps, id) == id \in DOMAIN ps \/ id \in InheritedKeys

\* position of the own key id in state.components, 0 when it is no own key
ComponentIndex(cs, id) ==
    IF \E i \in 1..Len(cs) : cs[i].componentId = id
    THEN CHOOSE i \in 1..Len(cs) : cs[i].componentId = id
    ELSE 0

\* this.state.components[id] is truthy
ComponentTruthy(cs, id) == ComponentIndex(cs, id) # 0 \/ id \in InheritedKeys

\* Array.prototype.includes
Includes(seq, x) == \E i \in 1..Len(seq) : seq[i] = x

EngineState == [problems |-> problems, components |-> components,
                decompositionPhases |-> decompositionPhases,
                currentPhaseIndex |-> currentPhaseIndex]

Success(st) == [st |-> st, status |-> "success", error |-> "none"]
Failed(st, msg) == [st |-> st, status |-> "failed", error |-> msg]

(***************************************************************************)
(* Validation of payloads.  A required string that is missing, empty or of *)
(* another type is the empty string: the three take the same branch.  An   *)
(* optional field is given when its name is in data.present.               *)
(***************************************************************************)
ValidateProblemError(data) ==
    IF data.problemStatement = "" THEN "Invalid problemStatement"
    ELSE IF data.problemId = "" THEN "Invalid problemId"
    ELSE IF "complexity" \in data.present /\ (data.complexity < 1 \/ data.complexity > 10)
         THEN "Invalid complexity"
    ELSE "none"

ValidateProblemData(data, t) ==
    [problemStatement |-> data.problemStatement,
     problemId |-> data.problemId,
     complexity |-> IF "complexity" \in data.present THEN data.complexity ELSE DefaultComplexity,
     domain |-> "",
     constraints |-> <<>>,
     createdAt |-> t]

ValidateComponentError(data) ==
    IF data.componentId = "" THEN "Invalid componentId"
    ELSE IF data.parentProblemId = "" THEN "Invalid parentProblemId"
    ELSE IF data.name = "" THEN "Invalid name"
    ELSE IF data.description = "" THEN "Invalid description"
    ELSE IF "status" \in data.present
            /\ data.status \notin {"pending", "in-progress", "completed"}
         THEN "Invalid status"
    ELSE IF "complexity" \in data.present /\ (data.complexity < 1 \/ data.complexity > 10)
         THEN "Invalid complexity"
    ELSE "none"

ValidateComponentData(data, t) ==
    [componentId |-> data.componentId,
     parentProblemId |-> data.parentProblemId,
     name |-> data.name,
     description |-> data.description,
     dependencies |-> IF "dependencies" \in data.present THEN data.dependencies ELSE <<>>,
     status |-> IF "status" \in data.present THEN data.status ELSE "pending",
     complexity |-> IF "complexity" \in data.present THEN data.complexity ELSE DefaultComplexity,
     createdAt |-> t,
     updatedAt |-> t,
     metadata |-> IF "metadata" \in data.present THEN data.metadata ELSE "{}"]

ValidatePhaseError(data) ==
    IF data.phaseId = "" THEN "Invalid phaseId"
    ELSE IF data.phaseName = "" THEN "Invalid phaseName"
    ELSE IF data.description = "" THEN "Invalid description"
    ELSE "none"

(***************************************************************************)
(* The dependency graph and the metrics.                                   *)
(***************************************************************************)
\* The Map from componentId to dependencies, with its keys in insertion order.
BuildDependencyGraph(cs) ==
    [keys |-> [i \in 1..Len(cs) |-> cs[i].componentId],
     deps |-> [id \in {cs[i].componentId : i \in 1..Len(cs)} |->
                  cs[ComponentIndex(cs, id)].dependencies]]

\* graph.get(nodeId) || []
GraphGet(graph, nodeId) ==
    IF nodeId \in DOMAIN graph.deps THEN graph.deps[nodeId] ELSE <<>>

\* dfs of calculateMaxDepth.  mem is the pair of the closure's `visited` set
\* and `depths` map; the result carries them as the call left them.
RECURSIVE Dfs(_, _, _), DfsChildren(_, _, _, _, _)
\* dfs that counts a node met again on the current path as a level
DfsOnPathOne(graph, nodeId, mem) ==
    IF nodeId \in DOMAIN mem.depths
    THEN [depth |-> mem.depths[nodeId], mem |-> mem]
    ELSE IF nodeId \in mem.visited
    THEN [depth |-> 1, mem |-> mem]
    ELSE LET m1 == [mem EXCEPT !.visited = @ \cup {nodeId}]
             dependencies == GraphGet(graph, nodeId)
         IN  IF Len(dependencies) = 0
             THEN [depth |-> 1, mem |-> [m1 EXCEPT !.depths = (nodeId :> 1) @@ @]]
             ELSE LET r == DfsChildren(graph, dependencies, 1, m1, 0)
                      depth == 1 + r.depth
                  IN  [depth |-> depth,
                       mem |-> [visited |-> r.mem.visited \ {nodeId},
                                depths |-> (nodeId :> depth) @@ r.mem.depths]]

Dfs(graph, nodeId, mem) ==
    IF nodeId \in DOMAIN mem.depths
    THEN [depth |-> mem.depths[nodeId], mem |-> mem]
    ELSE IF nodeId \in mem.visited
    THEN [depth |-> 0, mem |-> mem]
    ELSE LET m1 == [mem EXCEPT !.visited = @ \cup {nodeId}]
             dependencies == GraphGet(graph, nodeId)
         IN  IF Len(dependencies) = 0
             THEN [depth |-> 1, mem |-> [m1 EXCEPT !.depths = (nodeId :> 1) @@ @]]
             ELSE LET r == DfsChildren(graph, dependencies, 1, m1, 0)
                      depth == 1 + r.depth
                  IN  [depth |-> depth,
                       mem |-> [visited |-> r.mem.visited \ {nodeId},
                                depths |-> (nodeId :> depth) @@ r.mem.depths]]

\* Math.max(...dependencies.map(depId => dfs(depId))), left to right
DfsChildren(graph, dependencies, i, mem, best) ==
    IF i > Len(dependencies)
    THEN [depth |-> best, mem |-> mem]
    ELSE LET r == Dfs(graph, dependencies[i], mem)
         IN  DfsChildren(graph, dependencies, i + 1, r.mem, Max(best, r.depth))

RECURSIVE MaxDepthLoop(_, _, _, _)
MaxDepthLoop(graph, i, mem, maxDepth) ==
    IF i > Len(graph.keys)
    THEN maxDepth
    ELSE LET r == Dfs(graph, graph.keys[i], mem)
         IN  MaxDepthLoop(graph, i + 1, r.mem, Max(maxDepth, r.depth))

\* calculateMaxDepth that counts the edges of the longest chain, not its nodes
CalculateMaxDepthInEdges(graph) ==
    Max(0, MaxDepthLoop(graph, 1, [visited |-> {}, depths |-> <<>>], 0) - 1)

CalculateMaxDepth(graph) ==
    MaxDepthLoop(graph, 1, [visited |-> {}, depths |-> <<>>], 0)

\* A balance score 10 * (1 - sqrt(q) / d), kept exact as the pair (q, d).
Score10 == [q |-> 0, d |-> 1]
Score1 == [q |-> 81, d |-> 10]

RECURSIVE SumOver(_, _)
SumOver(f, keys) ==
    IF keys = {} THEN 0
    ELSE LET k == CHOOSE x \in keys : TRUE IN f[k] + SumOver(f, keys \ {k})

\* the inDegree map with the loop over the dependencies arrays left out
InDegreeZero(cs, graph) ==
    [k \in {cs[i].componentId : i \in 1..Len(cs)} |-> 0]

\* The inDegree map: a key for every component of the problem and for every
\* identifier some dependencies array of the graph holds, counting the
\* occurrences of the identifier in those arrays.
InDegree(cs, graph) ==
    LET ids == {cs[i].componentId : i \in 1..Len(cs)}
        slots == UNION {{<<k, j>> : j \in 1..Len(graph.deps[k])} : k \in DOMAIN graph.deps}
        keys == ids \cup {graph.deps[s[1]][s[2]] : s \in slots}
    IN  [k \in keys |-> Cardinality({s \in slots : graph.deps[s[1]][s[2]] = k})]

\* calculateBalanceScore that returns 10 * (1 - normalizedStdDev) as it is
CalculateBalanceScoreUnclamped(cs, graph) ==
    IF Len(cs) <= 1 THEN Score10
    ELSE LET inDegree == InDegree(cs, graph)
             m == Cardinality(DOMAIN inDegree)
             total == SumOver(inDegree, DOMAIN inDegree)
             squares == SumOver([k \in DOMAIN inDegree |-> inDegree[k] * inDegree[k]],
                                DOMAIN inDegree)
         IN  [q |-> m * squares - total * total, d |-> m * (Len(cs) - 1)]

CalculateBalanceScore(cs, graph) ==
    IF Len(cs) <= 1 THEN Score10
    ELSE LET inDegree == InDegree(cs, graph)
             m == Cardinality(DOMAIN inDegree)
             total == SumOver(inDegree, DOMAIN inDegree)
             squares == SumOver([k \in DOMAIN inDegree |-> inDegree[k] * inDegree[k]],
                                DOMAIN inDegree)
             \* variance = q / m^2, stdDev = sqrt(q) / m
             q == m * squares - total * total
             \* normalizedStdDev = stdDev / (components.length - 1)
             d == m * (Len(cs) - 1)
         IN  IF q = 0 THEN Score10
             ELSE IF 100 * q >= 81 * d * d THEN Score1
             ELSE [q |-> q, d |-> d]

ZeroMetrics ==
    [componentCount |-> 0, averageComplexity |-> Fraction(0, 1), maxDepth |-> 0,
     dependencyCount |-> 0, balanceScore |-> Score10]

RECURSIVE SumSeq(_, _)
SumSeq(f, n) == IF n = 0 THEN 0 ELSE f[n] + SumSeq(f, n - 1)

\* the components of every problem, the filter left out
ComponentsOfAny(cs, problemId) == cs

\* Object.values(state.components).filter(c => c.parentProblemId === problemId)
ComponentsOf(cs, problemId) == SelectSeq(cs, LAMBDA c : c.parentProblemId = problemId)

\* calculateMetrics without the early return for a problem with no components
CalculateMetricsNoEarlyReturn(allComponents, problemId) ==
    LET cs == ComponentsOf(allComponents, problemId)
        totalComplexity == SumSeq([i \in 1..Len(cs) |-> cs[i].complexity], Len(cs))
        dependencyGraph == BuildDependencyGraph(cs)
    IN  [componentCount |-> Len(cs),
         \* 0 / 0 when there is no component
         averageComplexity |-> IF Len(cs) = 0 THEN [num |-> 0, den |-> 0]
                               ELSE Fraction(totalComplexity, Len(cs)),
         maxDepth |-> CalculateMaxDepth(dependencyGraph),
         dependencyCount |->
             SumSeq([i \in 1..Len(cs) |-> Len(cs[i].dependencies)], Len(cs)),
         balanceScore |-> CalculateBalanceScore(cs, dependencyGraph)]

\* calculateMetrics that builds the dependency graph from the whole store
CalculateMetricsWholeGraph(allComponents, problemId) ==
    LET cs == ComponentsOf(allComponents, problemId)
    IN  IF Len(cs) = 0 THEN ZeroMetrics
        ELSE LET componentCount == Len(cs)
                 totalComplexity == SumSeq([i \in 1..Len(cs) |-> cs[i].complexity], Len(cs))
                 dependencyGraph == BuildDependencyGraph(allComponents)
             IN  [componentCount |-> componentCount,
                  averageComplexity |-> Fraction(totalComplexity, componentCount),
                  maxDepth |-> CalculateMaxDepth(dependencyGraph),
                  dependencyCount |->
                      SumSeq([i \in 1..Len(cs) |-> Len(cs[i].dependencies)], Len(cs)),
                  balanceScore |-> CalculateBalanceScore(cs, dependencyGraph)]

CalculateMetrics(allComponents, problemId) ==
    LET cs == ComponentsOf(allComponents, problemId)
    IN  IF Len(cs) = 0 THEN ZeroMetrics
        ELSE LET componentCount == Len(cs)
                 totalComplexity == SumSeq([i \in 1..Len(cs) |-> cs[i].complexity], Len(cs))
                 dependencyGraph == BuildDependencyGraph(cs)
             IN  [componentCount |-> componentCount,
                  averageComplexity |-> Fraction(totalComplexity, componentCount),
                  maxDepth |-> CalculateMaxDepth(dependencyGraph),
                  dependencyCount |->
                      SumSeq([i \in 1..Len(cs) |-> Len(cs[i].dependencies)], Len(cs)),
                  balanceScore |-> CalculateBalanceScore(cs, dependencyGraph)]

(***************************************************************************)
(* The cycle guard of linkComponents.                                      *)
(***************************************************************************)
\* this.state.components[id].dependencies is an array that can be walked:
\* a missing key has no properties, an inherited one no dependencies.
HasDependencies(cs, id) == ComponentIndex(cs, id) # 0

\* checkCircular(currentId, targetId) with the closure's `visited` set.
\* res is "true", "false", or "throw" when the walk reads the dependencies
\* of an identifier that has none (a TypeError).
\* checkCircular that compares the two identifiers and never walks on
CheckCircularShallow(cs, currentId, targetId, visited) ==
    [res |-> IF currentId = targetId THEN "true" ELSE "false", visited |-> visited]

RECURSIVE CheckCircular(_, _, _, _), CheckCircularLoop(_, _, _, _, _)
CheckCircular(cs, currentId, targetId, visited) ==
    IF currentId = targetId THEN [res |-> "true", visited |-> visited]
    ELSE IF currentId \in visited THEN [res |-> "false", visited |-> visited]
    ELSE IF ~HasDependencies(cs, currentId)
         THEN [res |-> "throw", visited |-> visited \cup {currentId}]
    ELSE CheckCircularLoop(cs, cs[ComponentIndex(cs, currentId)].dependencies, 1,
                           targetId, visited \cup {currentId})

CheckCircularLoop(cs, dependencies, i, targetId, visited) ==
    IF i > Len(dependencies) THEN [res |-> "false", visited |-> visited]
    ELSE LET r == CheckCircular(cs, dependencies[i], targetId, visited)
         IN  IF r.res = "false"
             THEN CheckCircularLoop(cs, dependencies, i + 1, targetId, r.visited)
             ELSE r

(***************************************************************************)
(* The cases of processRequest.  Each takes the engine state st, the       *)
(* request's arguments and the time t that Date.now() returns, and gives   *)
(* the state it leaves and the status and error of the envelope.           *)
(***************************************************************************)
\* createProblem without the lookup of the identifier
CreateProblemUnchecked(st, data, t) ==
    LET err == ValidateProblemError(data)
        problemData == ValidateProblemData(data, t)
    IN  IF err # "none" THEN Failed(st, err)
        ELSE Success([st EXCEPT !.problems = (problemData.problemId :> problemData) @@ @])

CreateProblem(st, data, t) ==
    LET err == ValidateProblemError(data)
        problemData == ValidateProblemData(data, t)
    IN  IF err # "none" THEN Failed(st, err)
        ELSE IF ProblemTruthy(st.problems, problemData.problemId)
        THEN Failed(st, "Problem already exists")
        ELSE Success([st EXCEPT !.problems = (problemData.problemId :> problemData) @@ @])

UpdateProblem(st, data, t) ==
    LET err == ValidateProblemError(data)
        problemData == ValidateProblemData(data, t)
        id == problemData.problemId
        \* an inherited property is truthy and has no createdAt
        createdAt == IF id \in DOMAIN st.problems THEN st.problems[id].createdAt ELSE NoTime
    IN  IF err # "none" THEN Failed(st, err)
        ELSE IF ~ProblemTruthy(st.problems, id)
        THEN Failed(st, "Problem does not exist")
        ELSE Success([st EXCEPT !.problems =
                         (id :> [problemData EXCEPT !.createdAt = createdAt]) @@ @])

\* createComponent that stores the component before it looks at the dependencies
CreateComponentStoreFirst(st, data, t) ==
    LET err == ValidateComponentError(data)
        componentData == ValidateComponentData(data, t)
        deps == componentData.dependencies
        stored == [st EXCEPT !.components = Append(@, componentData)]
    IN  IF err # "none" THEN Failed(st, err)
        ELSE IF ComponentTruthy(st.components, componentData.componentId)
        THEN Failed(st, "Component already exists")
        ELSE IF ~ProblemTruthy(st.problems, componentData.parentProblemId)
        THEN Failed(st, "Parent problem does not exist")
        ELSE IF \E i \in 1..Len(deps) : ~ComponentTruthy(st.components, deps[i])
        THEN Failed(stored, "Dependency component does not exist")
        ELSE Success(stored)

\* createComponent that brings the snapshot of every completed phase up to date
CreateComponentRefreshSnapshots(st, data, t) ==
    LET err == ValidateComponentError(data)
        componentData == ValidateComponentData(data, t)
        deps == componentData.dependencies
        stored == Append(st.components, componentData)
    IN  IF err # "none" THEN Failed(st, err)
        ELSE IF ComponentTruthy(st.components, componentData.componentId)
        THEN Failed(st, "Component already exists")
        ELSE IF ~ProblemTruthy(st.problems, componentData.parentProblemId)
        THEN Failed(st, "Parent problem does not exist")
        ELSE IF \E i \in 1..Len(deps) : ~ComponentTruthy(st.components, deps[i])
        THEN Failed(st, "Dependency component does not exist")
        ELSE Success([st EXCEPT
                 !.components = stored,
                 !.decompositionPhases =
                     [i \in 1..Len(@) |->
                         IF @[i].completedAt = NoTime THEN @[i]
                         ELSE [@[i] EXCEPT !.metrics =
                                  CalculateMetrics(stored, componentData.parentProblemId)]]])

CreateComponent(st, data, t) ==
    LET err == ValidateComponentError(data)
        componentData == ValidateComponentData(data, t)
        deps == componentData.dependencies
    IN  IF err # "none" THEN Failed(st, err)
        ELSE IF ComponentTruthy(st.components, componentData.componentId)
        THEN Failed(st, "Component already exists")
        ELSE IF ~ProblemTruthy(st.problems, componentData.parentProblemId)
        THEN Failed(st, "Parent problem does not exist")
        ELSE IF \E i \in 1..Len(deps) : ~ComponentTruthy(st.components, deps[i])
        THEN Failed(st, "Dependency component does not exist")
        ELSE Success([st EXCEPT !.components = Append(@, componentData)])

\* updateComponent that leaves the updated component alone in the store
UpdateComponentDropOthers(st, data, t) ==
    LET err == ValidateComponentError(data)
        componentData == ValidateComponentData(data, t)
        idx == ComponentIndex(st.components, componentData.componentId)
        createdAt == IF idx # 0 THEN st.components[idx].createdAt ELSE NoTime
        stored == [componentData EXCEPT !.createdAt = createdAt, !.updatedAt = t]
    IN  IF err # "none" THEN Failed(st, err)
        ELSE IF ~ComponentTruthy(st.components, componentData.componentId)
        THEN Failed(st, "Component does not exist")
        ELSE Success([st EXCEPT !.components = <<stored>>])

UpdateComponent(st, data, t) ==
    LET err == ValidateComponentError(data)
        componentData == ValidateComponentData(data, t)
        idx == ComponentIndex(st.components, componentData.componentId)
        \* an inherited property is truthy and has no createdAt
        createdAt == IF idx # 0 THEN st.components[idx].createdAt ELSE NoTime
        stored == [componentData EXCEPT !.createdAt = createdAt, !.updatedAt = t]
    IN  IF err # "none" THEN Failed(st, err)
        ELSE IF ~ComponentTruthy(st.components, componentData.componentId)
        THEN Failed(st, "Component does not exist")
        ELSE IF idx # 0
        THEN Success([st EXCEPT !.components[idx] = stored])
        ELSE Success([st EXCEPT !.components = Append(@, stored)])

\* linkComponents that refreshes the updated timestamp of the target as well
LinkComponentsTouchesTarget(st, sourceId, targetId, t) ==
    LET cs == st.components
        src == ComponentIndex(cs, sourceId)
        tgt == ComponentIndex(cs, targetId)
    IN  IF sourceId = "" THEN Failed(st, "Invalid sourceId")
        ELSE IF targetId = "" THEN Failed(st, "Invalid targetId")
        ELSE IF ~ComponentTruthy(cs, sourceId)
        THEN Failed(st, "Source component does not exist")
        ELSE IF ~ComponentTruthy(cs, targetId)
        THEN Failed(st, "Target component does not exist")
        ELSE LET circular == CheckCircular(cs, targetId, sourceId, {}).res
             IN  IF circular = "throw" THEN Failed(st, "TypeError")
                 ELSE IF circular = "true"
                 THEN Failed(st, "Cannot create circular dependency")
                 ELSE IF src = 0 THEN Failed(st, "TypeError")
                 ELSE IF ~Includes(cs[src].dependencies, targetId)
                 THEN Success([st EXCEPT
                          !.components = [i \in 1..Len(cs) |->
                              IF i = src
                              THEN [cs[i] EXCEPT !.dependencies = Append(@, targetId),
                                                 !.updatedAt = t]
                              ELSE IF i = tgt THEN [cs[i] EXCEPT !.updatedAt = t]
                              ELSE cs[i]]])
                 ELSE Success(st)

LinkComponents(st, sourceId, targetId, t) ==
    LET cs == st.components
        src == ComponentIndex(cs, sourceId)
    IN  IF sourceId = "" THEN Failed(st, "Invalid sourceId")
        ELSE IF targetId = "" THEN Failed(st, "Invalid targetId")
        ELSE IF ~ComponentTruthy(cs, sourceId)
        THEN Failed(st, "Source component does not exist")
        ELSE IF ~ComponentTruthy(cs, targetId)
        THEN Failed(st, "Target component does not exist")
        ELSE LET circular == CheckCircular(cs, targetId, sourceId, {}).res
             IN  IF circular = "throw" THEN Failed(st, "TypeError")
                 ELSE IF circular = "true"
                 THEN Failed(st, "Cannot create circular dependency")
                 \* an inherited source has no dependencies to call includes on
                 ELSE IF src = 0 THEN Failed(st, "TypeError")
                 ELSE IF ~Includes(cs[src].dependencies, targetId)
                 THEN Success([st EXCEPT
                          !.components[src].dependencies = Append(@, targetId),
                          !.components[src].updatedAt = t])
                 ELSE Success(st)

\* startPhase that puts the new phase at the front of the history
StartPhaseUnshift(st, data, t) ==
    LET err == ValidatePhaseError(data)
        newPhase == [phaseId |-> data.phaseId, phaseName |-> data.phaseName,
                     description |-> data.description, startedAt |-> t,
                     completedAt |-> NoTime, metrics |-> ZeroMetrics]
    IN  IF err # "none" THEN Failed(st, err)
        ELSE Success([st EXCEPT
                 !.decompositionPhases = <<newPhase>> \o @,
                 !.currentPhaseIndex = Len(st.decompositionPhases)])

\* startPhase that closes the phase that was current and resets its metrics
StartPhaseClosesCurrent(st, data, t) ==
    LET err == ValidatePhaseError(data)
        newPhase == [phaseId |-> data.phaseId, phaseName |-> data.phaseName,
                     description |-> data.description, startedAt |-> t,
                     completedAt |-> NoTime, metrics |-> ZeroMetrics]
        closed == [i \in 1..Len(st.decompositionPhases) |->
                      IF i = st.currentPhaseIndex + 1
                      THEN [st.decompositionPhases[i] EXCEPT
                               !.completedAt = t, !.metrics = ZeroMetrics]
                      ELSE st.decompositionPhases[i]]
    IN  IF err # "none" THEN Failed(st, err)
        ELSE Success([st EXCEPT
                 !.decompositionPhases = Append(closed, newPhase),
                 !.currentPhaseIndex = Len(st.decompositionPhases)])

\* startPhase that refuses a phaseId the history already holds
StartPhaseUnique(st, data, t) ==
    LET err == ValidatePhaseError(data)
        newPhase == [phaseId |-> data.phaseId, phaseName |-> data.phaseName,
                     description |-> data.description, startedAt |-> t,
                     completedAt |-> NoTime, metrics |-> ZeroMetrics]
    IN  IF err # "none" THEN Failed(st, err)
        ELSE IF \E i \in 1..Len(st.decompositionPhases) :
                    st.decompositionPhases[i].phaseId = data.phaseId
        THEN Failed(st, "Phase already exists")
        ELSE Success([st EXCEPT
                 !.decompositionPhases = Append(@, newPhase),
                 !.currentPhaseIndex = Len(st.decompositionPhases)])

StartPhase(st, data, t) ==
    LET err == ValidatePhaseError(data)
        newPhase == [phaseId |-> data.phaseId, phaseName |-> data.phaseName,
                     description |-> data.description, startedAt |-> t,
                     completedAt |-> NoTime, metrics |-> ZeroMetrics]
    IN  IF err # "none" THEN Failed(st, err)
        ELSE Success([st EXCEPT
                 !.decompositionPhases = Append(@, newPhase),
                 !.currentPhaseIndex = Len(st.decompositionPhases)])

\* findLastIndex in the place of findIndex: the latest record with the id
FindLastPhaseIndex(phases, phaseId) ==
    IF \E i \in 1..Len(phases) : phases[i].phaseId = phaseId
    THEN (CHOOSE i \in 1..Len(phases) :
             /\ phases[i].phaseId = phaseId
             /\ \A j \in (i + 1)..Len(phases) : phases[j].phaseId # phaseId) - 1
    ELSE -1

\* findIndex(p => p.phaseId === phaseId): 0-based, -1 when none
FindPhaseIndex(phases, phaseId) ==
    IF \E i \in 1..Len(phases) : phases[i].phaseId = phaseId
    THEN (CHOOSE i \in 1..Len(phases) :
             /\ phases[i].phaseId = phaseId
             /\ \A j \in 1..(i - 1) : phases[j].phaseId # phaseId) - 1
    ELSE -1

\* completePhase that sets completedAt and leaves the metrics of the phase
CompletePhaseStaleMetrics(st, phaseId, problemId, t) ==
    LET phaseIndex == FindPhaseIndex(st.decompositionPhases, phaseId)
    IN  IF phaseId = "" THEN Failed(st, "Invalid phaseId")
        ELSE IF problemId = "" THEN Failed(st, "Invalid problemId")
        ELSE IF phaseIndex = -1 THEN Failed(st, "Phase does not exist")
        ELSE IF ~ProblemTruthy(st.problems, problemId)
        THEN Failed(st, "Problem does not exist")
        ELSE Success([st EXCEPT !.decompositionPhases[phaseIndex + 1].completedAt = t])

\* completePhase that writes to the current phase, whatever phaseId found
CompletePhaseCurrent(st, phaseId, problemId, t) ==
    LET phaseIndex == FindPhaseIndex(st.decompositionPhases, phaseId)
        metrics == CalculateMetrics(st.components, problemId)
    IN  IF phaseId = "" THEN Failed(st, "Invalid phaseId")
        ELSE IF problemId = "" THEN Failed(st, "Invalid problemId")
        ELSE IF phaseIndex = -1 THEN Failed(st, "Phase does not exist")
        ELSE IF ~ProblemTruthy(st.problems, problemId)
        THEN Failed(st, "Problem does not exist")
        ELSE Success([st EXCEPT
                 !.decompositionPhases[st.currentPhaseIndex + 1].completedAt = t,
                 !.decompositionPhases[st.currentPhaseIndex + 1].metrics = metrics])

\* completePhase that refuses a phase that is already completed
CompletePhaseOnce(st, phaseId, problemId, t) ==
    LET phaseIndex == FindPhaseIndex(st.decompositionPhases, phaseId)
        metrics == CalculateMetrics(st.components, problemId)
    IN  IF phaseId = "" THEN Failed(st, "Invalid phaseId")
        ELSE IF problemId = "" THEN Failed(st, "Invalid problemId")
        ELSE IF phaseIndex = -1 THEN Failed(st, "Phase does not exist")
        ELSE IF ~ProblemTruthy(st.problems, problemId)
        THEN Failed(st, "Problem does not exist")
        ELSE IF st.decompositionPhases[phaseIndex + 1].completedAt # NoTime
        THEN Failed(st, "Phase already completed")
        ELSE Success([st EXCEPT
                 !.decompositionPhases[phaseIndex + 1].completedAt = t,
                 !.decompositionPhases[phaseIndex + 1].metrics = metrics])

CompletePhase(st, phaseId, problemId, t) ==
    LET phaseIndex == FindPhaseIndex(st.decompositionPhases, phaseId)
        metrics == CalculateMetrics(st.components, problemId)
    IN  IF phaseId = "" THEN Failed(st, "Invalid phaseId")
        ELSE IF problemId = "" THEN Failed(st, "Invalid problemId")
        ELSE IF phaseIndex = -1 THEN Failed(st, "Phase does not exist")
        ELSE IF ~ProblemTruthy(st.problems, problemId)
        THEN Failed(st, "Problem does not exist")
        ELSE Success([st EXCEPT
                 !.decompositionPhases[phaseIndex + 1].completedAt = t,
                 !.decompositionPhases[phaseIndex + 1].metrics = metrics])

\* the `phase` of the envelope a successful completePhase returns, read from
\* the state st the call leaves
CompletePhaseReturned(st, phaseId) ==
    st.decompositionPhases[FindPhaseIndex(st.decompositionPhases, phaseId) + 1]

\* a query that keeps the metrics it computed in the current phase record
ProblemQueryCachesMetrics(st, problemId) ==
    IF problemId = "" THEN Failed(st, "Invalid problemId")
    ELSE IF ~ProblemTruthy(st.problems, problemId)
    THEN Failed(st, "Problem does not exist")
    ELSE Success([st EXCEPT !.decompositionPhases =
                     [i \in 1..Len(@) |->
                         IF i = st.currentPhaseIndex + 1
                         THEN [@[i] EXCEPT !.metrics =
                                  CalculateMetrics(st.components, problemId)]
                         ELSE @[i]]])

\* calculateMetrics, getDecomposition and getProblemDetails: the same checks
ProblemQuery(st, problemId) ==
    IF problemId = "" THEN Failed(st, "Invalid problemId")
    ELSE IF ~ProblemTruthy(st.problems, problemId)
    THEN Failed(st, "Problem does not exist")
    ELSE Success(st)

GetComponentDetails(st, componentId) ==
    IF componentId = "" THEN Failed(st, "Invalid componentId")
    ELSE IF ~ComponentTruthy(st.components, componentId)
    THEN Failed(st, "Component does not exist")
    \* an inherited property has no dependencies to map over
    ELSE IF ComponentIndex(st.components, componentId) = 0 THEN Failed(st, "TypeError")
    ELSE Success(st)

GetPhaseHistory(st) == Success(st)

\* the `phases` and `currentPhaseIndex` of the envelope getPhaseHistory returns
GetPhaseHistoryReturned(st) ==
    [phases |-> st.decompositionPhases, currentPhaseIndex |-> st.currentPhaseIndex]

UnknownAction(st) == Failed(st, "Unknown action")

(***************************************************************************)
(* The dispatcher.  args carries every argument a request can hold.  A     *)
(* nested payload (problemData, componentData, phaseData) is on the wire   *)
(* an object, with the fields of `data`, or undefined, null, or a value    *)
(* of another type (a string or a number): reading a field of undefined or *)
(* null throws a TypeError, and reading one of a string or a number gives  *)
(* undefined, as if every field were missing.  An identifier argument that *)
(* is missing or of another type is the empty string.                      *)
(***************************************************************************)
ActionNames ==
    {"createProblem", "updateProblem", "createComponent", "updateComponent",
     "linkComponents", "startPhase", "completePhase", "calculateMetrics",
     "getDecomposition", "getComponentDetails", "getProblemDetails", "getPhaseHistory"}

WireShapes == {"object", "undefined", "null", "primitive"}

\* the payloads with every field missing
NoProblemFields == [problemId |-> "", problemStatement |-> "", present |-> {}, complexity |-> 0]

NoComponentFields ==
    [componentId |-> "", parentProblemId |-> "", name |-> "", description |-> "",
     dependencies |-> <<>>, present |-> {}, status |-> "", complexity |-> 0,
     metadata |-> "{}"]

NoPhaseFields == [phaseId |-> "", phaseName |-> "", description |-> ""]

\* `const data = input as Record<string, unknown>` followed by data.<field>
ReadThrows(wire) == wire.shape \in {"undefined", "null"}
FieldsOf(wire, none) == IF wire.shape = "object" THEN wire.data ELSE none

\* processRequest with a catch that lets a TypeError through to the caller
ProcessRequestTypeErrorEscapes(st, action, args, t) ==
    LET uncaught == [st |-> st, status |-> "escaped", error |-> "TypeError"]
        problemData == FieldsOf(args.problemData, NoProblemFields)
        componentData == FieldsOf(args.componentData, NoComponentFields)
        phaseData == FieldsOf(args.phaseData, NoPhaseFields)
        r == CASE action = "createProblem" ->
                      IF ReadThrows(args.problemData) THEN uncaught
                      ELSE CreateProblem(st, problemData, t)
               [] action = "updateProblem" ->
                      IF ReadThrows(args.problemData) THEN uncaught
                      ELSE UpdateProblem(st, problemData, t)
               [] action = "createComponent" ->
                      IF ReadThrows(args.componentData) THEN uncaught
                      ELSE CreateComponent(st, componentData, t)
               [] action = "updateComponent" ->
                      IF ReadThrows(args.componentData) THEN uncaught
                      ELSE UpdateComponent(st, componentData, t)
               [] action = "linkComponents" ->
                      LinkComponents(st, args.sourceId, args.targetId, t)
               [] action = "startPhase" ->
                      IF ReadThrows(args.phaseData) THEN uncaught
                      ELSE StartPhase(st, phaseData, t)
               [] action = "completePhase" ->
                      CompletePhase(st, args.phaseId, args.problemId, t)
               [] action \in {"calculateMetrics", "getDecomposition", "getProblemDetails"} ->
                      ProblemQuery(st, args.problemId)
               [] action = "getComponentDetails" ->
                      GetComponentDetails(st, args.componentId)
               [] action = "getPhaseHistory" -> GetPhaseHistory(st)
               [] OTHER -> UnknownAction(st)
    IN  IF r.error = "TypeError" THEN uncaught ELSE r

ProcessRequest(st, action, args, t) ==
    LET problemData == FieldsOf(args.problemData, NoProblemFields)
        componentData == FieldsOf(args.componentData, NoComponentFields)
        phaseData == FieldsOf(args.phaseData, NoPhaseFields)
    IN  CASE action = "createProblem" ->
                 IF ReadThrows(args.problemData) THEN Failed(st, "TypeError")
                 ELSE CreateProblem(st, problemData, t)
          [] action = "updateProblem" ->
                 IF ReadThrows(args.problemData) THEN Failed(st, "TypeError")
                 ELSE UpdateProblem(st, problemData, t)
          [] action = "createComponent" ->
                 IF ReadThrows(args.componentData) THEN Failed(st, "TypeError")
                 ELSE CreateComponent(st, componentData, t)
          [] action = "updateComponent" ->
                 IF ReadThrows(args.componentData) THEN Failed(st, "TypeError")
                 ELSE UpdateComponent(st, componentData, t)
          [] action = "linkComponents" ->
                 LinkComponents(st, args.sourceId, args.targetId, t)
          [] action = "startPhase" ->
                 IF ReadThrows(args.phaseData) THEN Failed(st, "TypeError")
                 ELSE StartPhase(st, phaseData, t)
          [] action = "completePhase" ->
                 CompletePhase(st, args.phaseId, args.problemId, t)
          [] action \in {"calculateMetrics", "getDecomposition", "getProblemDetails"} ->
                 ProblemQuery(st, args.problemId)
          [] action = "getComponentDetails" ->
                 GetComponentDetails(st, args.componentId)
          [] action = "getPhaseHistory" -> GetPhaseHistory(st)
          [] OTHER -> UnknownAction(st)

(***************************************************************************)
(* The cycle-detection tool: detectCycle(nodes, edges).  graph, visited    *)
(* and stack are object literals: graph holds an own key for every node;   *)
(* visited and stack hold the keys the walk has written, and a read of any *)
(* other key finds what Object.prototype has under that name.              *)
(***************************************************************************)
\* graph[node] = [] for every node, then graph[from].push(to) for every edge
CycleGraph(nodes, edges) ==
    [n \in {nodes[i] : i \in 1..Len(nodes)} |->
        LET out == SelectSeq(edges, LAMBDA e : e[1] = n)
        IN  [j \in 1..Len(out) |-> out[j][2]]]

\* visited[x] is truthy: written true, or inherited
VisitedTruthy(mem, x) == x \in mem.visited \/ x \in InheritedKeys

\* stack[x] is truthy: written true, or never written and inherited
StackTruthy(mem, x) ==
    x \in mem.onStack \/ (x \in InheritedKeys /\ x \notin mem.offStack)

\* dfs(node).  mem holds visited, stack (the keys written true and the keys
\* written false) and path; the result carries them as the call left them.
RECURSIVE CycleDfs(_, _, _), CycleDfsLoop(_, _, _, _)
CycleDfs(graph, node, mem) ==
    CycleDfsLoop(graph, node, 1,
                 [visited |-> mem.visited \cup {node},
                  onStack |-> mem.onStack \cup {node},
                  offStack |-> mem.offStack \ {node},
                  path |-> Append(mem.path, node)])

\* the loop over graph[node], from its i-th element on
CycleDfsLoop(graph, node, i, mem) ==
    IF i > Len(graph[node])
    THEN [found |-> FALSE,
          mem |-> [visited |-> mem.visited,
                   onStack |-> mem.onStack \ {node},
                   offStack |-> mem.offStack \cup {node},
                   path |-> SubSeq(mem.path, 1, Len(mem.path) - 1)]]
    ELSE LET neighbor == graph[node][i]
             r == IF VisitedTruthy(mem, neighbor)
                  THEN [found |-> FALSE, mem |-> mem]
                  ELSE CycleDfs(graph, neighbor, mem)
         IN  IF r.found THEN r
             ELSE IF StackTruthy(r.mem, neighbor)
             THEN [found |-> TRUE,
                   mem |-> [r.mem EXCEPT !.path = Append(@, neighbor)]]
             ELSE CycleDfsLoop(graph, node, i + 1, r.mem)

\* Array.prototype.lastIndexOf, 1-based, 0 when x is not in seq
LastIndexOf(seq, x) ==
    IF \E i \in 1..Len(seq) : seq[i] = x
    THEN CHOOSE i \in 1..Len(seq) :
             seq[i] = x /\ \A j \in (i + 1)..Len(seq) : seq[j] # x
    ELSE 0

\* the loop over nodes, from the i-th node on
RECURSIVE DetectCycleLoop(_, _, _, _)
DetectCycleLoop(graph, nodes, i, mem) ==
    IF i > Len(nodes) THEN [hasCycle |-> FALSE, cyclePath |-> <<>>]
    ELSE IF VisitedTruthy(mem, nodes[i])
    THEN DetectCycleLoop(graph, nodes, i + 1, mem)
    ELSE LET r == CycleDfs(graph, nodes[i], mem)
             path == r.mem.path
             cycleStart == LastIndexOf(path, path[Len(path)])
         IN  IF r.found
             THEN [hasCycle |-> TRUE, cyclePath |-> SubSeq(path, cycleStart, Len(path))]
             ELSE DetectCycleLoop(graph, nodes, i + 1, r.mem)

DetectCycle(nodes, edges) ==
    DetectCycleLoop(CycleGraph(nodes, edges), nodes, 1,
                    [visited |-> {}, onStack |-> {}, offStack |-> {}, path |-> <<>>])

(***************************************************************************)
(* The branching-exploration server: scenarios, and branches that name a   *)
(* parent scenario and, optionally, a parent branch.  state.scenarios and  *)
(* state.branches are object literals; the scenarios are kept as the set   *)
(* of their own keys and the branches in key insertion order.              *)
(* A parentBranchId is undefined, a string, or a value of another type.    *)
(***************************************************************************)
NoParentBranch == [shape |-> "undefined", id |-> ""]
ParentBranch(id) == [shape |-> "string", id |-> id]

\* this.state.scenarios[id] is truthy
ScenarioTruthy(scs, id) == id \in scs \/ id \in InheritedKeys

\* position of the own key id in state.branches, 0 when it is no own key
BranchIndex(bs, id) ==
    IF \E i \in 1..Len(bs) : bs[i].branchId = id
    THEN CHOOSE i \in 1..Len(bs) : bs[i].branchId = id
    ELSE 0

\* this.state.branches[id] is truthy
BranchTruthy(bs, id) == BranchIndex(bs, id) # 0 \/ id \in InheritedKeys

\* branch.parentBranchId is truthy
ParentBranchTruthy(b) == b.parentBranchId.shape = "string" /\ b.parentBranchId.id # ""

ValidateScenarioError(data) ==
    IF data.scenarioId = "" THEN "Invalid scenarioId"
    ELSE IF data.scenarioName = "" THEN "Invalid scenarioName"
    ELSE IF data.scenarioDescription = "" THEN "Invalid scenarioDescription"
    ELSE IF data.initialConditions = "" THEN "Invalid initialConditions"
    ELSE IF "objectives" \notin data.present THEN "Invalid objectives"
    ELSE IF "constraints" \notin data.present THEN "Invalid constraints"
    ELSE "none"

\* probability is held in hundredths
ValidateBranchError(data) ==
    IF data.branchId = "" THEN "Invalid branchId"
    ELSE IF data.parentScenarioId = "" THEN "Invalid parentScenarioId"
    ELSE IF data.parentBranchId.shape \notin {"undefined", "string"}
         THEN "Invalid parentBranchId"
    ELSE IF data.branchName = "" THEN "Invalid branchName"
    ELSE IF data.branchDescription = "" THEN "Invalid branchDescription"
    ELSE IF data.branchConditions = "" THEN "Invalid branchConditions"
    ELSE IF "probability" \notin data.present \/ data.probability < 0
            \/ data.probability > 100
         THEN "Invalid probability"
    ELSE IF "depth" \notin data.present \/ data.depth < 0 THEN "Invalid depth"
    ELSE IF data.status \notin {"unexplored", "exploring", "completed", "abandoned"}
         THEN "Invalid status"
    ELSE "none"

ValidateBranchData(data, t) ==
    [branchId |-> data.branchId,
     parentScenarioId |-> data.parentScenarioId,
     parentBranchId |-> data.parentBranchId,
     branchName |-> data.branchName,
     branchDescription |-> data.branchDescription,
     branchConditions |-> data.branchConditions,
     probability |-> data.probability,
     depth |-> data.depth,
     status |-> data.status,
     createdAt |-> t,
     updatedAt |-> t]

InitializeBranchingState ==
    [scenarios |-> {}, branches |-> <<>>, currentScenarioId |-> "null",
     currentBranchId |-> "null",
     last |-> [action |-> "none", status |-> "none", error |-> "none"],
     tree |-> <<>>]

\* the envelope a case of the branching server's processRequest returns
BranchingSuccess(bst, action, tree) ==
    [bst EXCEPT !.last = [action |-> action, status |-> "success", error |-> "none"],
                !.tree = tree]
BranchingFailed(bst, action, msg) ==
    [bst EXCEPT !.last = [action |-> action, status |-> "failed", error |-> msg],
                !.tree = <<>>]

CreateScenario(bst, data) ==
    LET err == ValidateScenarioError(data)
    IN  IF err # "none" THEN BranchingFailed(bst, "createScenario", err)
        ELSE IF ScenarioTruthy(bst.scenarios, data.scenarioId)
        THEN BranchingFailed(bst, "createScenario", "Scenario already exists")
        ELSE BranchingSuccess([bst EXCEPT !.scenarios = @ \cup {data.scenarioId},
                                          !.currentScenarioId = data.scenarioId],
                              "createScenario", <<>>)

CreateBranch(bst, data, t) ==
    LET err == ValidateBranchError(data)
        branchData == ValidateBranchData(data, t)
    IN  IF err # "none" THEN BranchingFailed(bst, "createBranch", err)
        ELSE IF BranchTruthy(bst.branches, branchData.branchId)
        THEN BranchingFailed(bst, "createBranch", "Branch already exists")
        ELSE IF ~ScenarioTruthy(bst.scenarios, branchData.parentScenarioId)
        THEN BranchingFailed(bst, "createBranch", "Parent scenario does not exist")
        ELSE IF ParentBranchTruthy(branchData)
                /\ ~BranchTruthy(bst.branches, branchData.parentBranchId.id)
        THEN BranchingFailed(bst, "createBranch", "Parent branch does not exist")
        ELSE BranchingSuccess([bst EXCEPT !.branches = Append(@, branchData),
                                          !.currentBranchId = branchData.branchId],
                              "createBranch", <<>>)

\* buildBranchTree(branchId) for the own key branchId; state.explorations is
\* empty.  The children are the stored branches whose parentBranchId is
\* branchId, in key order.
RECURSIVE BuildBranchTree(_, _), BuildBranchTrees(_, _, _)
BuildBranchTree(bs, branchId) ==
    LET childBranches ==
            SelectSeq(bs, LAMBDA b : b.parentBranchId = ParentBranch(branchId))
    IN  [branch |-> bs[BranchIndex(bs, branchId)],
         explorations |-> <<>>,
         children |-> BuildBranchTrees(bs, childBranches, 1)]

\* branches.map(branch => buildBranchTree(branch.branchId)) from position i on
BuildBranchTrees(bs, branches, i) ==
    IF i > Len(branches) THEN <<>>
    ELSE <<BuildBranchTree(bs, branches[i].branchId)>>
             \o BuildBranchTrees(bs, branches, i + 1)

\* the `tree` of the envelope: the trees of the scenario's root branches
ScenarioTree(bst, scenarioId) ==
    LET branches == SelectSeq(bst.branches, LAMBDA b : b.parentScenarioId = scenarioId)
        rootBranches == SelectSeq(branches, LAMBDA b : ~ParentBranchTruthy(b))
    IN  BuildBranchTrees(bst.branches, rootBranches, 1)

GetScenarioTree(bst, scenarioId) ==
    IF scenarioId = "" THEN BranchingFailed(bst, "getScenarioTree", "Invalid scenarioId")
    ELSE IF ~ScenarioTruthy(bst.scenarios, scenarioId)
    THEN BranchingFailed(bst, "getScenarioTree", "Scenario does not exist")
    ELSE BranchingSuccess(bst, "getScenarioTree", ScenarioTree(bst, scenarioId))

(***************************************************************************)
(* Requests in flight.  The transport hands the requests to the            *)
(* CallToolRequestSchema handler in their order of arrival; the handler    *)
(* calls processRequest, which has no await and no callback, so it runs on *)
(* the one thread of the runtime from its first statement to its return.   *)
(* To look between the statements of linkComponents the case is taken in   *)
(* two steps: the checks up to checkCircular, and the append.  inFlight    *)
(* holds the requests that have arrived (inbox), the linkComponents calls  *)
(* that are past their checks and before their append (running), and the   *)
(* <<sourceId, targetId>> pairs that were answered with success.           *)
(***************************************************************************)
NothingInFlight == [inbox |-> <<>>, running |-> {}, succeeded |-> {}]

\* a handler starts only when no other is on the call stack
CallStackIgnored == TRUE

CallStackEmpty == inFlight.running = {}

\* linkComponents up to the throw of the circular-dependency error: the error
\* raised, or "none"
LinkCheckError(st, sourceId, targetId) ==
    LET cs == st.components
    IN  IF sourceId = "" THEN "Invalid sourceId"
        ELSE IF targetId = "" THEN "Invalid targetId"
        ELSE IF ~ComponentTruthy(cs, sourceId) THEN "Source component does not exist"
        ELSE IF ~ComponentTruthy(cs, targetId) THEN "Target component does not exist"
        ELSE LET circular == CheckCircular(cs, targetId, sourceId, {}).res
             IN  IF circular = "throw" THEN "TypeError"
                 ELSE IF circular = "true" THEN "Cannot create circular dependency"
                 ELSE "none"

\* linkComponents from the includes test on
LinkAppend(st, sourceId, targetId, t) ==
    LET cs == st.components
        src == ComponentIndex(cs, sourceId)
    IN  IF src = 0 THEN Failed(st, "TypeError")
        ELSE IF ~Includes(cs[src].dependencies, targetId)
        THEN Success([st EXCEPT
                 !.components[src].dependencies = Append(@, targetId),
                 !.components[src].updatedAt = t])
        ELSE Success(st)

\* no sibling tool is serving a call
NoToolCall == [tool |-> "none"]

(***************************************************************************)
(* The state machine.                                                      *)
(***************************************************************************)
Init ==
    /\ problems = <<>>
    /\ components = <<>>
    /\ decompositionPhases = <<>>
    /\ currentPhaseIndex = -1
    /\ now = 0
    /\ last = [action |-> "none", status |-> "none", error |-> "none"]
    /\ toolCall = NoToolCall
    /\ branching = InitializeBranchingState
    /\ inFlight = NothingInFlight

\* processRequest returns the envelope of r and leaves the state of r.
Respond(action, r) ==
    /\ problems' = r.st.problems
    /\ components' = r.st.components
    /\ decompositionPhases' = r.st.decompositionPhases
    /\ currentPhaseIndex' = r.st.currentPhaseIndex
    /\ last' = [action |-> action, status |-> r.status, error |-> r.error]
    /\ UNCHANGED <<now, toolCall, branching, inFlight>>

\* Each action takes the set its arguments are drawn from.
DoCreateProblem(payloads) ==
    \E data \in payloads : Respond("createProblem", CreateProblem(EngineState, data, now))

DoUpdateProblem(payloads) ==
    \E data \in payloads : Respond("updateProblem", UpdateProblem(EngineState, data, now))

DoCreateComponent(payloads) ==
    \E data \in payloads : Respond("createComponent", CreateComponent(EngineState, data, now))

DoUpdateComponent(payloads) ==
    \E data \in payloads : Respond("updateComponent", UpdateComponent(EngineState, data, now))

DoLinkComponents(ids) ==
    \E sourceId \in ids, targetId \in ids :
        Respond("linkComponents", LinkComponents(EngineState, sourceId, targetId, now))

DoStartPhase(payloads) ==
    \E data \in payloads :
        /\ ValidatePhaseError(data) = "none" => Len(decompositionPhases) < MaxPhases
        /\ Respond("startPhase", StartPhase(EngineState, data, now))

\* startPhase, explored while the history is shorter than limit
DoStartPhaseUpTo(payloads, limit) ==
    \E data \in payloads :
        /\ ValidatePhaseError(data) = "none" => Len(decompositionPhases) < limit
        /\ Respond("startPhase", StartPhase(EngineState, data, now))

DoCompletePhase(phaseIds, problemIds) ==
    \E phaseId \in phaseIds, problemId \in problemIds :
        Respond("completePhase", CompletePhase(EngineState, phaseId, problemId, now))

DoCalculateMetrics(ids) ==
    \E problemId \in ids : Respond("calculateMetrics", ProblemQuery(EngineState, problemId))

DoGetDecomposition(ids) ==
    \E problemId \in ids : Respond("getDecomposition", ProblemQuery(EngineState, problemId))

DoGetComponentDetails(ids) ==
    \E componentId \in ids :
        Respond("getComponentDetails", GetComponentDetails(EngineState, componentId))

DoGetProblemDetails(ids) ==
    \E problemId \in ids : Respond("getProblemDetails", ProblemQuery(EngineState, problemId))

DoGetPhaseHistory == Respond("getPhaseHistory", GetPhaseHistory(EngineState))

DoUnknownAction == Respond("unknown", UnknownAction(EngineState))

\* A request <<action, args>> through the dispatcher; startPhase is explored
\* while the history is shorter than MaxPhases.
DoProcessRequest(requests) ==
    \E req \in requests :
        LET r == ProcessRequest(EngineState, req[1], req[2], now)
        IN  /\ Len(r.st.decompositionPhases) <= MaxPhases
            /\ Respond(req[1], r)

\* processCycle answers the call it was given with the result of detectCycle.
DoDetectCycle ==
    /\ toolCall.tool = "cycle_detection"
    /\ ~toolCall.returned
    /\ toolCall' = [toolCall EXCEPT
                       !.returned = TRUE,
                       !.result = DetectCycle(toolCall.nodes, toolCall.edges)]
    /\ UNCHANGED <<problems, components, decompositionPhases, currentPhaseIndex, now, last,
                    branching, inFlight>>

\* A request to the branching-exploration server.
BranchingRespond(bst) ==
    /\ branching' = bst
    /\ UNCHANGED <<problems, components, decompositionPhases, currentPhaseIndex, now, last,
                    toolCall, inFlight>>

DoCreateScenario(payloads) ==
    \E data \in payloads : BranchingRespond(CreateScenario(branching, data))

DoCreateBranch(payloads) ==
    \E data \in payloads : BranchingRespond(CreateBranch(branching, data, now))

DoGetScenarioTree(ids) ==
    \E scenarioId \in ids : BranchingRespond(GetScenarioTree(branching, scenarioId))

\* A request reaches the transport, whatever the server is doing.
Arrive(requests) ==
    /\ Len(inFlight.inbox) < MaxInFlight
    /\ \E req \in requests : inFlight' = [inFlight EXCEPT !.inbox = Append(@, req)]
    /\ UNCHANGED <<problems, components, decompositionPhases, currentPhaseIndex, now, last,
                    toolCall, branching>>

\* The handler takes the oldest request, a linkComponents(sourceId, targetId),
\* and runs its checks: a failed check is answered at once.
LinkBegin ==
    /\ CallStackEmpty
    /\ Len(inFlight.inbox) > 0
    /\ LET req == Head(inFlight.inbox)
           err == LinkCheckError(EngineState, req[1], req[2])
       IN  IF err # "none"
           THEN /\ inFlight' = [inFlight EXCEPT !.inbox = Tail(@)]
                /\ last' = [action |-> "linkComponents", status |-> "failed", error |-> err]
           ELSE /\ inFlight' = [inFlight EXCEPT !.inbox = Tail(@),
                                                !.running = @ \cup {req}]
                /\ UNCHANGED last
    /\ UNCHANGED <<problems, components, decompositionPhases, currentPhaseIndex, now,
                    toolCall, branching>>

\* A linkComponents call that is past its checks appends and returns.
LinkEnd ==
    \E req \in inFlight.running :
        LET r == LinkAppend(EngineState, req[1], req[2], now)
        IN  /\ components' = r.st.components
            /\ last' = [action |-> "linkComponents", status |-> r.status, error |-> r.error]
            /\ inFlight' = [inFlight EXCEPT
                               !.running = @ \ {req},
                               !.succeeded = IF r.status = "success"
                                             THEN @ \cup {req} ELSE @]
            /\ UNCHANGED <<problems, decompositionPhases, currentPhaseIndex, now,
                            toolCall, branching>>

\* Time passes between two requests.
Tick ==
    /\ now < MaxTime
    /\ now' = now + 1
    /\ UNCHANGED <<problems, components, decompositionPhases, currentPhaseIndex, last,
                    toolCall, branching, inFlight>>

(***************************************************************************)
(* The requests a client sends.                                            *)
(***************************************************************************)
SeqsUpTo(S, n) == UNION {[1..k -> S] : k \in 0..n}

ProblemPayload(i, s, given, c) ==
    [problemId |-> i, problemStatement |-> s, present |-> given, complexity |-> c]

ComponentPayload(i, p, d, deps, given, s, c) ==
    [componentId |-> i, parentProblemId |-> p, name |-> "n", description |-> d,
     dependencies |-> deps, present |-> {"dependencies"} \cup given, status |-> s,
     complexity |-> c, metadata |-> "{}"]

PhasePayload(i, n, d) == [phaseId |-> i, phaseName |-> n, description |-> d]

\* Spec: every action, over one stored problem, two components and one phase.
\* "p2" names a problem and "c3" a component that are never created.
ProblemIds == {"p1", "p2"}
ComponentIds == {"c1", "c2"}
PhaseIds == {"ph1"}

ProblemIdArgs == ProblemIds \cup InheritedKeys \cup {""}
ComponentIdArgs == ComponentIds \cup InheritedKeys \cup {""}
PhaseIdArgs == PhaseIds \cup {"ph2", ""}

ProblemPayloads ==
    {ProblemPayload("p1", "s1", {}, 0), ProblemPayload("p1", "s2", {"complexity"}, 8),
     ProblemPayload("", "s1", {}, 0),
     ProblemPayload("p1", "s1", {"complexity"}, 11)}

\* dependencies arrays: none, or one of the two components
DependencyLists == {<<>>, <<"c1">>, <<"c2">>}

ComponentPayloads ==
    {ComponentPayload(i, "p1", "d1", deps, {}, "pending", 0) :
        i \in ComponentIds, deps \in DependencyLists}
    \cup {ComponentPayload("c1", "p2", "d1", <<>>, {}, "pending", 0),
          ComponentPayload("c1", "p1", "d1", <<"c3">>, {}, "pending", 0),
          ComponentPayload("", "p1", "d1", <<>>, {}, "pending", 0),
          ComponentPayload("c1", "p1", "d1", <<>>, {"complexity"}, "pending", 0)}

PhasePayloads ==
    {PhasePayload(i, "n", "d") : i \in PhaseIds} \cup {PhasePayload("", "n", "d")}

\* args of a request: the three nested payloads and the identifier arguments
RequestArgs(pw, cw, phw, src, tgt, ph, p, c) ==
    [problemData |-> pw, componentData |-> cw, phaseData |-> phw,
     sourceId |-> src, targetId |-> tgt, phaseId |-> ph, problemId |-> p,
     componentId |-> c]

ProblemWire(shape) == [shape |-> shape, data |-> NoProblemFields]
ComponentWire(shape) == [shape |-> shape, data |-> NoComponentFields]
PhaseWire(shape) == [shape |-> shape, data |-> NoPhaseFields]

Next ==
    \/ DoCreateProblem(ProblemPayloads)
    \/ DoUpdateProblem(ProblemPayloads)
    \/ DoCreateComponent(ComponentPayloads)
    \/ DoUpdateComponent(ComponentPayloads)
    \/ DoLinkComponents(ComponentIdArgs)
    \/ DoStartPhase(PhasePayloads)
    \/ DoCompletePhase(PhaseIdArgs, ProblemIdArgs)
    \/ DoCalculateMetrics(ProblemIdArgs)
    \/ DoGetDecomposition(ProblemIdArgs)
    \/ DoGetComponentDetails(ComponentIdArgs)
    \/ DoGetProblemDetails(ProblemIdArgs)
    \/ DoGetPhaseHistory
    \/ DoUnknownAction

Spec == Init /\ [][Next]_vars

\* SpecGraph: the dependency graph of three components of two problems, built
\* by createComponent and linkComponents alone.
GraphComponentIds == {"c1", "c2", "c3"}

GraphProblemPayloads ==
    {ProblemPayload(i, "s1", {}, 0) : i \in ProblemIds}

GraphComponentPayloads ==
    {ComponentPayload(i, p, "d1", deps, {}, "pending", 0) :
        i \in GraphComponentIds, p \in ProblemIds,
        deps \in SeqsUpTo(GraphComponentIds, MaxDeps) \cup {<<"constructor">>}}

GraphIdArgs == GraphComponentIds \cup InheritedKeys

NextGraph ==
    \/ DoCreateProblem(GraphProblemPayloads)
    \/ DoCreateComponent(GraphComponentPayloads)
    \/ DoLinkComponents(GraphIdArgs)
    \/ DoCalculateMetrics(ProblemIds)

SpecGraph == Init /\ [][NextGraph]_vars

\* SpecPhases: the phase history while the clock runs, over one problem and
\* its two components.  The same phaseId can be started twice; "ph3" is never
\* started and "p2" never created.  The clock is followed from the start of
\* the first phase on.
HistoryPhaseIds == {"ph1", "ph2"}

HistoryProblemPayloads == {ProblemPayload("p1", "s1", {}, 0)}

HistoryComponentPayloads ==
    {ComponentPayload("c1", "p1", "d1", <<>>, {}, "pending", 0),
     ComponentPayload("c2", "p1", "d1", <<"c1">>, {}, "pending", 0)}

HistoryPhasePayloads ==
    {PhasePayload(i, "n", "d") : i \in HistoryPhaseIds}

HistoryPhaseIdArgs == HistoryPhaseIds \cup {"ph3"}

HistoryProblemIdArgs == ProblemIds \cup InheritedKeys

NextPhases ==
    \/ DoCreateProblem(HistoryProblemPayloads)
    \/ DoCreateComponent(HistoryComponentPayloads)
    \/ DoStartPhaseUpTo(HistoryPhasePayloads, MaxPhases + 1)
    \/ DoCompletePhase(HistoryPhaseIdArgs, HistoryProblemIdArgs)
    \/ DoGetPhaseHistory
    \/ (Len(decompositionPhases) > 0 /\ Tick)

SpecPhases == Init /\ [][NextPhases]_vars

\* SpecPhaseCalls: the same requests with no time passing between them.
NextPhaseCalls ==
    \/ DoCreateProblem(HistoryProblemPayloads)
    \/ DoCreateComponent(HistoryComponentPayloads)
    \/ DoStartPhaseUpTo(HistoryPhasePayloads, MaxPhases + 1)
    \/ DoCompletePhase(HistoryPhaseIdArgs, HistoryProblemIdArgs)
    \/ DoGetPhaseHistory

SpecPhaseCalls == Init /\ [][NextPhaseCalls]_vars

\* SpecDispatch: requests as they reach processRequest, with any action name
\* and with nested payloads of any shape.
\* action names: the twelve of the tool, two it does not know, and none
RequestActionNames == ActionNames \cup {"deleteProblem", "constructor", ""}

\* the nested payloads as objects: well-formed ones, and one with no field
\* as updates, the last two components make "c1" depend on itself and "c2"
\* on "c3", that is never created
RequestProblemData ==
    {NoProblemFields, ProblemPayload("p1", "s1", {}, 0),
     ProblemPayload("p1", "s2", {"complexity"}, 8)}

RequestComponentData ==
    {NoComponentFields,
     ComponentPayload("c1", "p1", "d1", <<>>, {}, "pending", 0),
     ComponentPayload("c2", "p1", "d1", <<"c1">>, {}, "pending", 0),
     ComponentPayload("c1", "p1", "d1", <<"c1">>, {}, "pending", 0),
     ComponentPayload("c2", "p1", "d1", <<"c3">>, {}, "pending", 0)}

RequestPhaseData == {NoPhaseFields, PhasePayload("ph1", "n", "d")}

\* one nested payload as an object and the others missing, or all three of
\* another shape
NestedArgs ==
    {RequestArgs([shape |-> "object", data |-> pd], ComponentWire("undefined"),
                 PhaseWire("undefined"), "", "", "", "", "") : pd \in RequestProblemData}
    \cup {RequestArgs(ProblemWire("undefined"), [shape |-> "object", data |-> cd],
                      PhaseWire("undefined"), "", "", "", "", "") :
             cd \in RequestComponentData}
    \cup {RequestArgs(ProblemWire("undefined"), ComponentWire("undefined"),
                      [shape |-> "object", data |-> phd], "", "", "", "", "") :
             phd \in RequestPhaseData}
    \cup {RequestArgs(ProblemWire(w), ComponentWire(w), PhaseWire(w), "", "", "", "", "") :
             w \in WireShapes \ {"object"}}

ComponentIdentifierArgs ==
    {RequestArgs(ProblemWire("undefined"), ComponentWire("undefined"),
                 PhaseWire("undefined"), a, b, "", "", a) :
        a \in ComponentIdArgs, b \in ComponentIdArgs}

PhaseIdentifierArgs ==
    {RequestArgs(ProblemWire("undefined"), ComponentWire("undefined"),
                 PhaseWire("undefined"), "", "", ph, p, "") :
        ph \in PhaseIdArgs, p \in ProblemIdArgs}

Requests ==
    (RequestActionNames \X NestedArgs)
    \cup ({"linkComponents", "getComponentDetails"} \X ComponentIdentifierArgs)
    \cup ({"completePhase", "calculateMetrics", "getDecomposition", "getProblemDetails"}
             \X PhaseIdentifierArgs)

NextDispatch == DoProcessRequest(Requests)

SpecDispatch == Init /\ [][NextDispatch]_vars

\* SpecCycle: one call of the cycle-detection tool, on any node list of up to
\* MaxNodes names and any list of up to MaxEdges edges between listed nodes.
CycleNodeNames == {"a", "b", "c"} \cup InheritedKeys

\* the edge lists whose endpoints are all in the node list ns
EdgeLists(ns) ==
    LET listed == {ns[i] : i \in 1..Len(ns)}
    IN  SeqsUpTo(listed \X listed, MaxEdges)

InitCycle ==
    /\ problems = <<>>
    /\ components = <<>>
    /\ decompositionPhases = <<>>
    /\ currentPhaseIndex = -1
    /\ now = 0
    /\ last = [action |-> "none", status |-> "none", error |-> "none"]
    /\ branching = InitializeBranchingState
    /\ inFlight = NothingInFlight
    /\ \E ns \in SeqsUpTo(CycleNodeNames, MaxNodes) :
          \E es \in EdgeLists(ns) :
              toolCall = [tool |-> "cycle_detection", nodes |-> ns, edges |-> es,
                          returned |-> FALSE,
                          result |-> [hasCycle |-> FALSE, cyclePath |-> <<>>]]

NextCycle == DoDetectCycle

SpecCycle == InitCycle /\ [][NextCycle]_vars

\* SpecBranching: two scenarios and three branches, each branch of either
\* scenario and under no branch, under an earlier or a later one, under an
\* inherited name, or with an empty parentBranchId.
ScenarioIds == {"s1", "s2"}
BranchIds == {"b1", "b2", "b3"}

ScenarioPayload(i, n) ==
    [scenarioId |-> i, scenarioName |-> n, scenarioDescription |-> "d",
     initialConditions |-> "i", present |-> {"objectives", "constraints"}]

BranchPayload(i, s, parent, n) ==
    [branchId |-> i, parentScenarioId |-> s, parentBranchId |-> parent,
     branchName |-> n, branchDescription |-> "d", branchConditions |-> "c",
     present |-> {"probability", "depth"}, probability |-> 50, depth |-> 0,
     status |-> "unexplored"]

ScenarioPayloads ==
    {ScenarioPayload(i, "n") : i \in ScenarioIds} \cup {ScenarioPayload("s1", "")}

ParentBranches ==
    {NoParentBranch, [shape |-> "other", id |-> ""]}
    \cup {ParentBranch(i) : i \in BranchIds \cup InheritedKeys \cup {""}}

BranchPayloads ==
    {BranchPayload(i, s, parent, "n") :
        i \in BranchIds, s \in ScenarioIds, parent \in ParentBranches}
    \cup {BranchPayload("b1", "s1", NoParentBranch, "")}

ScenarioIdArgs == ScenarioIds \cup InheritedKeys \cup {""}

NextBranching ==
    \/ DoCreateScenario(ScenarioPayloads)
    \/ DoCreateBranch(BranchPayloads)
    \/ DoGetScenarioTree(ScenarioIdArgs)

SpecBranching == Init /\ [][NextBranching]_vars

\* SpecInFlight: linkComponents requests over two components, arriving while
\* earlier ones are held or handled; the other cases run when the call stack
\* is empty.
InFlightComponentPayloads ==
    {ComponentPayload(i, "p1", "d1", deps, {}, "pending", 0) :
        i \in ComponentIds, deps \in DependencyLists}

LinkRequests == ComponentIds \X ComponentIds

NextInFlight ==
    \/ (CallStackEmpty /\ DoCreateProblem(HistoryProblemPayloads))
    \/ (CallStackEmpty /\ DoCreateComponent(InFlightComponentPayloads))
    \/ Arrive(LinkRequests)
    \/ LinkBegin
    \/ LinkEnd

SpecInFlight == Init /\ [][NextInFlight]_vars

\* SpecUpdates: the components of two problems as createComponent and
\* updateComponent leave them: with cycles, with dependencies on "c3", that
\* is never created, and with dependencies across the two problems.
UpdateDependencyLists == DependencyLists \cup {<<"c3">>, <<"c2", "c1">>}

UpdateComponentPayloads ==
    {ComponentPayload(i, p, "d1", deps, {}, "pending", 0) :
        i \in ComponentIds, p \in ProblemIds, deps \in UpdateDependencyLists}

NextUpdates ==
    \/ DoCreateProblem(GraphProblemPayloads)
    \/ DoCreateComponent(UpdateComponentPayloads)
    \/ DoUpdateComponent(UpdateComponentPayloads)
    \/ DoCalculateMetrics(ProblemIds)

SpecUpdates == Init /\ [][NextUpdates]_vars

(***************************************************************************)
(* The dependency relation, read off the stored components.                *)
(***************************************************************************)
StoredIds(cs) == {cs[i].componentId : i \in 1..Len(cs)}

\* the edges component -> dependency
Edges(cs) ==
    UNION {{<<cs[i].componentId, cs[i].dependencies[j]>> :
               j \in 1..Len(cs[i].dependencies)} : i \in 1..Len(cs)}

Successors(E, S) == {e[2] : e \in {x \in E : x[1] \in S}}

RECURSIVE Closure(_, _)
Closure(E, S) ==
    LET T == S \cup Successors(E, S) IN IF T = S THEN S ELSE Closure(E, T)

\* what id reaches by following one or more edges
ReachSet(cs, id) == Closure(Edges(cs), Successors(Edges(cs), {id}))

Acyclic(cs) == \A id \in StoredIds(cs) : id \notin ReachSet(cs, id)

NotFoundErrors ==
    {"Problem does not exist", "Parent problem does not exist",
     "Dependency component does not exist", "Component does not exist",
     "Source component does not exist", "Target component does not exist",
     "Phase does not exist"}

CircularError == "Cannot create circular dependency"

(***************************************************************************)
(* C1.  In every state that any sequence of the actions reaches, the       *)
(* dependency relation over the stored components is acyclic: no           *)
(* component reaches itself by following one or more dependency edges.     *)
(* updateComponent stores the payload's dependencies unchecked, so it      *)
(* breaks this.                                                            *)
(***************************************************************************)
C1_AlwaysAcyclic == Acyclic(components)

(***************************************************************************)
(* C2.  From a store built with createProblem and createComponent, any     *)
(* sequence of linkComponents calls, accepted or refused, between          *)
(* components of one problem or of two, leaves no component that reaches   *)
(* itself through dependency edges.                                        *)
(***************************************************************************)
C2_LinkKeepsAcyclic ==
    \A id \in StoredIds(components) : id \notin ReachSet(components, id)

\* a link was refused as circular among three components, with a chain of
\* two edges and an edge between components of different problems
C2_Witness ==
    /\ last.action = "linkComponents"
    /\ last.error = CircularError
    /\ Len(components) = 3
    /\ \E i, j \in 1..3 :
          /\ components[i].parentProblemId # components[j].parentProblemId
          /\ Includes(components[i].dependencies, components[j].componentId)
    /\ \E i, j, k \in 1..3 :
          /\ i # j /\ j # k /\ i # k
          /\ Includes(components[i].dependencies, components[j].componentId)
          /\ Includes(components[j].dependencies, components[k].componentId)

(***************************************************************************)
(* C3.  For stored components sourceId and targetId, linkComponents fails  *)
(* with the circular-dependency error exactly when targetId is sourceId or *)
(* targetId already reaches sourceId; then nothing changes; in every other *)
(* case the call succeeds.  A dependency on an identifier that is not      *)
(* stored makes the walk throw, and the call fails with another error.     *)
(***************************************************************************)
C3_CircularExactlyWhenReachable ==
    \A sourceId \in StoredIds(components), targetId \in StoredIds(components) :
        LET r == LinkComponents(EngineState, sourceId, targetId, now)
        IN  /\ r.error = CircularError
                <=> (targetId = sourceId \/ sourceId \in ReachSet(components, targetId))
            /\ r.error = CircularError => r.st = EngineState
            /\ r.error # CircularError => r.status = "success"

(***************************************************************************)
(* C4.  linkComponents(a, b) twice in a row leaves the state that one call *)
(* leaves, and when the edge a -> b already exists the second call         *)
(* succeeds and changes nothing (no duplicate, updatedAt not refreshed).   *)
(* In a state with a cycle or a dependency that is not stored the edge can *)
(* exist and the call fail.                                                *)
(***************************************************************************)
EdgeExists(cs, a, b) ==
    ComponentIndex(cs, a) # 0 /\ Includes(cs[ComponentIndex(cs, a)].dependencies, b)

C4_LinkIdempotent ==
    \A a \in ComponentIdArgs, b \in ComponentIdArgs, later \in {now, now + 1} :
        LET first == LinkComponents(EngineState, a, b, now)
            second == LinkComponents(first.st, a, b, later)
        IN  /\ second.st = first.st
            /\ EdgeExists(first.st.components, a, b) => second = Success(first.st)

\* the part of C4 that holds in every state: the second call leaves the
\* state of the first and gets the first's status
C4_SecondCallChangesNothing ==
    \A a \in ComponentIdArgs, b \in ComponentIdArgs, later \in {now, now + 1} :
        LET first == LinkComponents(EngineState, a, b, now)
            second == LinkComponents(first.st, a, b, later)
        IN  /\ second.st = first.st
            /\ first.status = "success" => second = Success(first.st)
            /\ first.status = "failed" => second = first

(***************************************************************************)
(* C5.  Whenever processRequest answers 'failed', for any action and any   *)
(* payload, the problems, the components with their dependency lists, the  *)
(* phase history and currentPhaseIndex are what they were before the call. *)
(***************************************************************************)
C5_FailedLeavesState ==
    [][last'.status = "failed" =>
          /\ problems' = problems
          /\ components' = components
          /\ decompositionPhases' = decompositionPhases
          /\ currentPhaseIndex' = currentPhaseIndex]_vars

\* a createComponent was refused for a dependency that is not stored, in a
\* store that holds a problem and a component
C5_Witness ==
    /\ last.action = "createComponent"
    /\ last.status = "failed"
    /\ last.error = "Dependency component does not exist"
    /\ DOMAIN problems # {}
    /\ Len(components) = 1

(***************************************************************************)
(* C6.  createComponent fails with a not-found error and stores nothing    *)
(* whenever parentProblemId names no stored problem or a declared          *)
(* dependency names no stored component.  The lookups also find inherited  *)
(* properties, so "constructor" passes for a problem and for a component.  *)
(***************************************************************************)
C6_CreateComponentNotFound ==
    \A data \in GraphComponentPayloads :
        LET r == CreateComponent(EngineState, data, now)
            deps == data.dependencies
        IN  (/\ data.componentId \notin StoredIds(components)
             /\ \/ data.parentProblemId \notin DOMAIN problems
                \/ \E j \in 1..Len(deps) : deps[j] \notin StoredIds(components))
            => (r.error \in NotFoundErrors /\ r.st = EngineState)

(***************************************************************************)
(* C7.  createProblem with a problemId that is stored and createComponent  *)
(* with a componentId that is stored fail with the already-exists error    *)
(* and leave the stored entity, with all its fields, as it was.            *)
(***************************************************************************)
C7_DuplicateCreateFails ==
    /\ \A data \in ProblemPayloads :
          (ValidateProblemError(data) = "none" /\ data.problemId \in DOMAIN problems)
          => CreateProblem(EngineState, data, now + 1)
                = Failed(EngineState, "Problem already exists")
    /\ \A data \in ComponentPayloads :
          (ValidateComponentError(data) = "none"
              /\ data.componentId \in StoredIds(components))
          => CreateComponent(EngineState, data, now + 1)
                = Failed(EngineState, "Component already exists")

\* a second createProblem for p1 was refused after p1 had been updated
C7_Witness ==
    /\ last.action = "createProblem"
    /\ last.error = "Problem already exists"
    /\ "p1" \in DOMAIN problems
    /\ problems["p1"].problemStatement = "s2"
    /\ Len(components) = 2

(***************************************************************************)
(* C8.  In an acyclic state, for a problem with a component, maxDepth is   *)
(* the greatest depth of its components, where a component with no         *)
(* dependencies has depth 1 and any other 1 + the greatest depth of its    *)
(* dependencies, followed through the stored components of any problem.    *)
(* calculateMetrics builds the graph from the problem's own components and *)
(* stops at a dependency of another problem.                               *)
(***************************************************************************)
RECURSIVE MaxOfSet(_)
MaxOfSet(S) ==
    LET x == CHOOSE y \in S : TRUE
    IN  IF S = {x} THEN x ELSE Max(x, MaxOfSet(S \ {x}))

\* the depth of the claim; an identifier that is not stored has no
\* dependencies to follow
RECURSIVE DepthThroughStore(_, _)
DepthThroughStore(cs, id) ==
    LET idx == ComponentIndex(cs, id)
    IN  IF idx = 0 \/ Len(cs[idx].dependencies) = 0 THEN 1
        ELSE 1 + MaxOfSet({DepthThroughStore(cs, cs[idx].dependencies[j]) :
                              j \in 1..Len(cs[idx].dependencies)})

\* every dependency of every stored component is a stored component
AllDependenciesStored(cs) == \A e \in Edges(cs) : e[2] \in StoredIds(cs)

C8_MaxDepthThroughStore ==
    (Acyclic(components) /\ AllDependenciesStored(components)) =>
        \A p \in ProblemIds :
            LET own == {id \in StoredIds(components) :
                           components[ComponentIndex(components, id)].parentProblemId = p}
            IN  own # {} =>
                    CalculateMetrics(components, p).maxDepth
                        = MaxOfSet({DepthThroughStore(components, id) : id \in own})

(***************************************************************************)
(* C9.  calculateMetrics(p) reports as componentCount the number of stored *)
(* components whose parentProblemId is p and as dependencyCount the sum of *)
(* the lengths of their dependency lists; after createProblem p1,          *)
(* createComponent c1 and createComponent c2 depending on c1 it reports    *)
(* componentCount 2, maxDepth 2 and dependencyCount 1.                     *)
(***************************************************************************)
\* p1 holds c1 with no dependencies and c2 that depends on c1
C9_Scenario ==
    /\ "p1" \in DOMAIN problems
    /\ Len(components) = 2
    /\ components[1].componentId = "c1" /\ components[1].parentProblemId = "p1"
    /\ components[1].dependencies = <<>>
    /\ components[2].componentId = "c2" /\ components[2].parentProblemId = "p1"
    /\ components[2].dependencies = <<"c1">>

C9_CountsAndScenario ==
    /\ \A p \in ProblemIdArgs :
          LET m == CalculateMetrics(components, p)
              own == {i \in 1..Len(components) : components[i].parentProblemId = p}
          IN  /\ m.componentCount = Cardinality(own)
              /\ m.dependencyCount =
                    Cardinality(UNION {{<<i, j>> : j \in 1..Len(components[i].dependencies)} :
                                          i \in own})
    /\ C9_Scenario =>
          LET m == CalculateMetrics(components, "p1")
          IN  m.componentCount = 2 /\ m.maxDepth = 2 /\ m.dependencyCount = 1

\* calculateMetrics answered in the state of the scenario
C9_Witness ==
    /\ last.action = "calculateMetrics"
    /\ last.status = "success"
    /\ C9_Scenario

(***************************************************************************)
(* C10.  For a stored problem with no components calculateMetrics returns  *)
(* componentCount 0, averageComplexity 0, maxDepth 0, dependencyCount 0    *)
(* and balanceScore 10, whatever components other problems have.           *)
(***************************************************************************)
C10_EmptyProblemMetrics ==
    \A p \in DOMAIN problems :
        (\A i \in 1..Len(components) : components[i].parentProblemId # p)
        => CalculateMetrics(components, p)
              = [componentCount |-> 0, averageComplexity |-> [num |-> 0, den |-> 1],
                 maxDepth |-> 0, dependencyCount |-> 0,
                 balanceScore |-> [q |-> 0, d |-> 1]]

\* calculateMetrics answered while p1 is stored with no components and p2
\* holds three components, one depending on another
C10_Witness ==
    /\ last.action = "calculateMetrics"
    /\ last.status = "success"
    /\ DOMAIN problems = {"p1", "p2"}
    /\ Len(components) = 3
    /\ \A i \in 1..3 : components[i].parentProblemId = "p2"
    /\ \E i \in 1..3 : components[i].dependencies # <<>>

(***************************************************************************)
(* Order on balance scores.  The score (q, d) is 10 * (1 - sqrt(q) / d)    *)
(* with d > 0: it is at most 10 when q >= 0, below 10 when q > 0, and at   *)
(* least 1 when sqrt(q) / d <= 9 / 10, that is 100 q <= 81 d^2.            *)
(***************************************************************************)
ScoreAtMost10(s) == s.d > 0 /\ s.q >= 0
ScoreBelow10(s) == s.d > 0 /\ s.q > 0
ScoreAtLeast1(s) == s.d > 0 /\ 100 * s.q <= 81 * s.d * s.d

(***************************************************************************)
(* C11.  In every reachable state and for every problem, the balanceScore  *)
(* that calculateMetrics returns, and the balanceScore stored in the       *)
(* metrics of every phase of the history, lies between 1 and 10, both      *)
(* included.                                                               *)
(***************************************************************************)
C11_BalanceScoreInRange ==
    /\ \A p \in ProblemIdArgs :
          LET s == CalculateMetrics(components, p).balanceScore
          IN  ScoreAtLeast1(s) /\ ScoreAtMost10(s)
    /\ \A i \in 1..Len(decompositionPhases) :
          LET s == decompositionPhases[i].metrics.balanceScore
          IN  ScoreAtLeast1(s) /\ ScoreAtMost10(s)

\* completePhase stored the metrics of a problem of two components whose
\* in-degrees are 2 and 0: the score before the clamp is 0, the stored one 1
C11_Witness ==
    /\ last.action = "completePhase"
    /\ last.status = "success"
    /\ Len(decompositionPhases) >= 1
    /\ decompositionPhases[1].completedAt # NoTime
    /\ decompositionPhases[1].metrics.componentCount = 2
    /\ decompositionPhases[1].metrics.balanceScore = Score1
    /\ LET own == ComponentsOf(components, "p1")
       IN  /\ Len(own) = 2
           /\ \E a, b \in 1..2 :
                 /\ a # b
                 /\ own[a].dependencies = <<own[a].componentId>>
                 /\ own[b].dependencies = <<own[a].componentId>>

(***************************************************************************)
(* C12.  The balance score of a problem with exactly one component is      *)
(* exactly 10, and the balance score of a problem with exactly two         *)
(* components of which one depends once on the other and the other on      *)
(* nothing (in-degrees 1 and 0) is strictly less than 10 and at least 1.   *)
(***************************************************************************)
\* the components of p are two, and one has the other as its one dependency
C12_OneDependsOnOther(cs, p) ==
    LET own == ComponentsOf(cs, p)
    IN  /\ Len(own) = 2
        /\ \E a, b \in 1..2 :
              /\ a # b
              /\ own[a].dependencies = <<own[b].componentId>>
              /\ own[b].dependencies = <<>>

C12_OneAndTwoComponents ==
    \A p \in ProblemIds :
        LET s == CalculateMetrics(components, p).balanceScore
        IN  /\ Len(ComponentsOf(components, p)) = 1 => s = Score10
            /\ C12_OneDependsOnOther(components, p)
                  => (ScoreBelow10(s) /\ ScoreAtLeast1(s))

\* calculateMetrics answered while one problem holds one component, that
\* depends on a component of the other problem, and the other problem holds
\* two, one depending on the other
C12_Witness ==
    /\ last.action = "calculateMetrics"
    /\ last.status = "success"
    /\ \E p, r \in ProblemIds :
          /\ p # r
          /\ C12_OneDependsOnOther(components, p)
          /\ Len(ComponentsOf(components, r)) = 1
          /\ ComponentsOf(components, r)[1].dependencies # <<>>

(***************************************************************************)
(* C13.  When completePhase(phaseId, problemId) succeeds, the phase it     *)
(* returns has completedAt set, to the time of the call, and metrics       *)
(* equal, field by field, to what calculateMetrics(problemId) returns in   *)
(* the state at the moment of the call.                                    *)
(***************************************************************************)
C13_CompletePhaseSnapshot ==
    \A phaseId \in HistoryPhaseIdArgs, problemId \in HistoryProblemIdArgs :
        LET r == CompletePhase(EngineState, phaseId, problemId, now)
            phase == CompletePhaseReturned(r.st, phaseId)
            metrics == CalculateMetrics(components, problemId)
        IN  r.status = "success" =>
                /\ phase.completedAt # NoTime
                /\ phase.completedAt = now
                /\ phase.metrics.componentCount = metrics.componentCount
                /\ phase.metrics.averageComplexity = metrics.averageComplexity
                /\ phase.metrics.maxDepth = metrics.maxDepth
                /\ phase.metrics.dependencyCount = metrics.dependencyCount
                /\ phase.metrics.balanceScore = metrics.balanceScore

\* completePhase succeeded, after the clock moved, on a phaseId started twice:
\* the first of the two phases holds the metrics of two components, one
\* depending on the other, and the second is still open
C13_Witness ==
    /\ last.action = "completePhase"
    /\ last.status = "success"
    /\ Len(decompositionPhases) = 2
    /\ decompositionPhases[1].phaseId = decompositionPhases[2].phaseId
    /\ decompositionPhases[1].startedAt = 0
    /\ decompositionPhases[1].completedAt = 1
    /\ decompositionPhases[1].metrics.componentCount = 2
    /\ decompositionPhases[1].metrics.dependencyCount = 1
    /\ decompositionPhases[2].completedAt = NoTime

(***************************************************************************)
(* C14.  completePhase(phaseId, problemId) fails with a not-found error if *)
(* no phase of the history has that phaseId or if no problem with          *)
(* problemId is stored, and in both cases no phase's completedAt or        *)
(* metrics changes.  The lookup of the problem also finds inherited        *)
(* properties: with "constructor" as problemId the call succeeds and       *)
(* overwrites the phase.                                                   *)
(***************************************************************************)
C14_CompletePhaseNotFound ==
    \A phaseId \in HistoryPhaseIdArgs, problemId \in HistoryProblemIdArgs :
        LET r == CompletePhase(EngineState, phaseId, problemId, now)
        IN  (\/ \A i \in 1..Len(decompositionPhases) :
                   decompositionPhases[i].phaseId # phaseId
             \/ problemId \notin DOMAIN problems)
            => /\ r.status = "failed"
               /\ r.error \in NotFoundErrors
               /\ r.st.decompositionPhases = decompositionPhases

\* the part of C14 that holds in every state: an absent phaseId, or a
\* problemId that no lookup finds, is refused and the history is left alone
C14_AbsentPhaseOrProblemRefused ==
    \A phaseId \in HistoryPhaseIdArgs, problemId \in HistoryProblemIdArgs :
        LET r == CompletePhase(EngineState, phaseId, problemId, now)
        IN  (\/ \A i \in 1..Len(decompositionPhases) :
                   decompositionPhases[i].phaseId # phaseId
             \/ ~ProblemTruthy(problems, problemId))
            => /\ r.status = "failed"
               /\ r.error \in NotFoundErrors
               /\ r.st = EngineState

(***************************************************************************)
(* C15.  In every reachable state currentPhaseIndex is -1 when the phase   *)
(* history is empty and otherwise the index of the last element of the     *)
(* history, the most recently started phase; completePhase never changes   *)
(* it; and getPhaseHistory returns the history in start order together     *)
(* with that index.                                                        *)
(***************************************************************************)
C15_CurrentPhaseIndex ==
    /\ currentPhaseIndex =
          IF Len(decompositionPhases) = 0 THEN -1 ELSE Len(decompositionPhases) - 1
    /\ \A phaseId \in HistoryPhaseIdArgs, problemId \in HistoryProblemIdArgs :
          CompletePhase(EngineState, phaseId, problemId, now).st.currentPhaseIndex
              = currentPhaseIndex
    /\ LET r == GetPhaseHistory(EngineState)
           h == GetPhaseHistoryReturned(r.st)
       IN  /\ r.status = "success"
           /\ h.phases = decompositionPhases
           /\ h.currentPhaseIndex = currentPhaseIndex
           /\ \A i, j \in 1..Len(h.phases) :
                 i < j => h.phases[i].startedAt <= h.phases[j].startedAt
           /\ \A i \in 1..Len(h.phases) :
                 h.phases[i].startedAt <= h.phases[h.currentPhaseIndex + 1].startedAt

\* getPhaseHistory answered with two phases started at different times, the
\* first of them completed after the second was started
C15_Witness ==
    /\ last.action = "getPhaseHistory"
    /\ last.status = "success"
    /\ Len(decompositionPhases) = 2
    /\ currentPhaseIndex = 1
    /\ decompositionPhases[1].startedAt = 0
    /\ decompositionPhases[2].startedAt = 1
    /\ decompositionPhases[1].completedAt = 1
    /\ decompositionPhases[2].completedAt = NoTime

(***************************************************************************)
(* C16.  The phase history is append-only: across any sequence of actions  *)
(* its length never decreases; every successful startPhase appends exactly *)
(* one record at the end; the phaseId, name, description and startedAt of  *)
(* an existing record never change; and a phase that no completePhase call *)
(* has targeted keeps completedAt unset and its placeholder metrics        *)
(* (componentCount 0, averageComplexity 0, maxDepth 0, dependencyCount 0,  *)
(* balanceScore 10): a record is appended with these, and its completedAt  *)
(* or metrics change only in a successful completePhase that finds it,     *)
(* the first record of the history with its phaseId.                       *)
(***************************************************************************)
C16_PlaceholderMetrics ==
    [componentCount |-> 0, averageComplexity |-> [num |-> 0, den |-> 1],
     maxDepth |-> 0, dependencyCount |-> 0, balanceScore |-> [q |-> 0, d |-> 1]]

C16_HistoryAppendOnly ==
    [][LET old == decompositionPhases
           new == decompositionPhases'
           \* the step is a request (the clock stands still) that startPhase accepted
           started == now' = now /\ last'.action = "startPhase" /\ last'.status = "success"
       IN  /\ Len(new) >= Len(old)
           /\ started =>
                 /\ Len(new) = Len(old) + 1
                 /\ new[Len(new)].startedAt = now
                 /\ new[Len(new)].completedAt = NoTime
                 /\ new[Len(new)].metrics = C16_PlaceholderMetrics
           /\ ~started => Len(new) = Len(old)
           /\ \A i \in 1..Len(old) :
                 /\ new[i].phaseId = old[i].phaseId
                 /\ new[i].phaseName = old[i].phaseName
                 /\ new[i].description = old[i].description
                 /\ new[i].startedAt = old[i].startedAt
                 /\ (new[i].completedAt # old[i].completedAt
                        \/ new[i].metrics # old[i].metrics) =>
                       /\ last'.action = "completePhase"
                       /\ last'.status = "success"
                       /\ \A j \in 1..(i - 1) : old[j].phaseId # old[i].phaseId]_vars

\* startPhase appended a second phase after the first was completed with the
\* metrics of a component, and the clock had moved
C16_Witness ==
    /\ last.action = "startPhase"
    /\ last.status = "success"
    /\ Len(decompositionPhases) = 2
    /\ decompositionPhases[1].startedAt = 0
    /\ decompositionPhases[1].completedAt # NoTime
    /\ decompositionPhases[1].metrics.componentCount >= 1
    /\ decompositionPhases[2].startedAt = 1
    /\ decompositionPhases[2].completedAt = NoTime
    /\ decompositionPhases[2].metrics = C16_PlaceholderMetrics

(***************************************************************************)
(* C17.  No action ever removes an entity: in every transition the set of  *)
(* stored problem identifiers and the set of stored component identifiers  *)
(* after the action include the sets before it.                            *)
(***************************************************************************)
C17_NothingDeleted ==
    [][/\ DOMAIN problems \subseteq DOMAIN problems'
       /\ StoredIds(components) \subseteq StoredIds(components')]_vars

\* updateComponent succeeded in a store of an updated problem and two
\* components, and left the first of them depending on itself
C17_Witness ==
    /\ last.action = "updateComponent"
    /\ last.status = "success"
    /\ "p1" \in DOMAIN problems
    /\ problems["p1"].problemStatement = "s2"
    /\ Len(components) = 2
    /\ components[1].componentId = "c1"
    /\ components[1].dependencies = <<"c1">>
    /\ components[2].componentId = "c2"

(***************************************************************************)
(* C18.  updateProblem and updateComponent fail with a not-found error     *)
(* when the target identifier is not stored; when they succeed the stored  *)
(* entity keeps the creation timestamp it had before the call, and for a   *)
(* component the updated timestamp is the time of the update, never        *)
(* earlier than the creation timestamp.  The lookups also find inherited   *)
(* properties: an update of "constructor" succeeds on an empty store and   *)
(* stores an entity with no creation timestamp.                            *)
(***************************************************************************)
\* well-formed update payloads for every identifier, stored or not
C18_ProblemUpdates ==
    {ProblemPayload(i, "s2", {"complexity"}, 8) : i \in ProblemIds \cup InheritedKeys}

C18_ComponentUpdates ==
    {ComponentPayload(i, "p1", "d2", deps, {}, "pending", 0) :
        i \in ComponentIds \cup InheritedKeys, deps \in {<<>>, <<"c1">>}}

C18_UpdateNotFoundAndTimestamps ==
    \A later \in {now, now + 1} :
        /\ \A data \in C18_ProblemUpdates :
              LET r == UpdateProblem(EngineState, data, later)
                  id == data.problemId
              IN  /\ id \notin DOMAIN problems =>
                        (r.status = "failed" /\ r.error \in NotFoundErrors)
                  /\ (r.status = "success" /\ id \in DOMAIN problems) =>
                        r.st.problems[id].createdAt = problems[id].createdAt
        /\ \A data \in C18_ComponentUpdates :
              LET r == UpdateComponent(EngineState, data, later)
                  id == data.componentId
                  before == ComponentIndex(components, id)
                  after == ComponentIndex(r.st.components, id)
              IN  /\ id \notin StoredIds(components) =>
                        (r.status = "failed" /\ r.error \in NotFoundErrors)
                  /\ (r.status = "success" /\ before # 0) =>
                        /\ r.st.components[after].createdAt = components[before].createdAt
                        /\ r.st.components[after].updatedAt = later
                        /\ r.st.components[after].updatedAt
                              >= r.st.components[after].createdAt

\* the part of C18 that holds in every state: an identifier that no lookup
\* finds is refused, and an update of a stored entity succeeds, keeps
\* createdAt and, for a component, sets updatedAt to the time of the update
C18_StoredEntityKeepsCreatedAt ==
    \A later \in {now, now + 1} :
        /\ \A data \in C18_ProblemUpdates :
              LET r == UpdateProblem(EngineState, data, later)
                  id == data.problemId
              IN  /\ ~ProblemTruthy(problems, id) =>
                        r = Failed(EngineState, "Problem does not exist")
                  /\ id \in DOMAIN problems =>
                        /\ r.status = "success"
                        /\ r.st.problems[id].createdAt = problems[id].createdAt
        /\ \A data \in C18_ComponentUpdates :
              LET r == UpdateComponent(EngineState, data, later)
                  id == data.componentId
                  before == ComponentIndex(components, id)
              IN  /\ ~ComponentTruthy(components, id) =>
                        r = Failed(EngineState, "Component does not exist")
                  /\ before # 0 =>
                        /\ r.status = "success"
                        /\ r.st.components[before].createdAt = components[before].createdAt
                        /\ r.st.components[before].updatedAt = later
                        /\ later >= r.st.components[before].createdAt

(***************************************************************************)
(* C19.  Every call to processRequest, for any action name, unknown ones   *)
(* included, and any payload, missing or malformed nested data included,   *)
(* returns an envelope whose status is 'success', or 'failed' with an      *)
(* error message; no error escapes the dispatcher; and an unknown action   *)
(* always yields 'failed'.                                                 *)
(***************************************************************************)
C19_AlwaysAnEnvelope ==
    \A req \in Requests :
        LET r == ProcessRequest(EngineState, req[1], req[2], now)
        IN  /\ r.status \in {"success", "failed"}
            /\ r.status = "failed" => r.error # "none"
            /\ req[1] \notin ActionNames => r.status = "failed"

\* a createProblem request with no problemData was answered, in a store that
\* holds a problem and two components
C19_Witness ==
    /\ last.action = "createProblem"
    /\ last.status = "failed"
    /\ last.error = "TypeError"
    /\ DOMAIN problems # {}
    /\ Len(components) = 2

(***************************************************************************)
(* C20.  For every node list and every edge list whose endpoints are all   *)
(* in the node list, detectCycle returns hasCycle = true if and only if    *)
(* the directed graph contains a cycle, a self-loop included, and returns  *)
(* an empty cyclePath when hasCycle is false.  For a node named as a       *)
(* property of Object.prototype, visited and stack read as true before the *)
(* walk has written them: an edge into such a node is reported as a cycle, *)
(* and a cycle through such nodes alone is missed.                         *)
(***************************************************************************)
\* some node reaches itself by following one or more of the edges
GraphHasCycle(nodes, edges) ==
    LET E == {edges[i] : i \in 1..Len(edges)}
    IN  \E n \in {nodes[i] : i \in 1..Len(nodes)} :
            n \in Closure(E, Successors(E, {n}))

C20_HasCycleIffCycle ==
    (toolCall.tool = "cycle_detection" /\ toolCall.returned) =>
        /\ toolCall.result.hasCycle <=> GraphHasCycle(toolCall.nodes, toolCall.edges)
        /\ ~toolCall.result.hasCycle => toolCall.result.cyclePath = <<>>

\* the part of C20 that holds for every call: when no node has the name of
\* an inherited property, hasCycle is true exactly when there is a cycle
C20_OwnNamesOnly ==
    (/\ toolCall.tool = "cycle_detection"
     /\ toolCall.returned
     /\ \A i \in 1..Len(toolCall.nodes) : toolCall.nodes[i] \notin InheritedKeys) =>
        /\ toolCall.result.hasCycle <=> GraphHasCycle(toolCall.nodes, toolCall.edges)
        /\ ~toolCall.result.hasCycle => toolCall.result.cyclePath = <<>>

\* the branchIds a list of branch trees holds, one entry per node
RECURSIVE TreeBranchIds(_)
TreeBranchIds(trees) ==
    IF Len(trees) = 0 THEN <<>>
    ELSE <<trees[1].branch.branchId>> \o TreeBranchIds(trees[1].children)
             \o TreeBranchIds(Tail(trees))

Occurrences(seq, x) == Cardinality({i \in 1..Len(seq) : seq[i] = x})

\* every branch under a stored parent branch was stored after it, so that
\* buildBranchTree goes down a chain of ever later branches and comes back
ParentsStoredEarlier(bs) ==
    \A i \in 1..Len(bs) :
        LET parent == BranchIndex(bs, bs[i].parentBranchId.id)
        IN  ParentBranchTruthy(bs[i]) /\ parent # 0 => parent < i

(***************************************************************************)
(* C21.  In the branching-exploration tool, in every reachable state and   *)
(* for every stored scenario S, the tree getScenarioTree(S) returns holds  *)
(* every branch whose parentScenarioId is S exactly once and no branch of  *)
(* another scenario, and building it terminates.  createBranch accepts a   *)
(* parent branch of another scenario (and an inherited name as parent      *)
(* branch), so the tree of one scenario holds the branch of another, and   *)
(* the branch is missing from the tree of its own scenario.                *)
(***************************************************************************)
C21_ScenarioTreeExact ==
    /\ ParentsStoredEarlier(branching.branches)
    /\ \A S \in branching.scenarios :
          LET r == GetScenarioTree(branching, S)
              ids == TreeBranchIds(r.tree)
              bs == branching.branches
          IN  /\ r.last.status = "success"
              /\ \A i \in 1..Len(bs) :
                    Occurrences(ids, bs[i].branchId)
                        = IF bs[i].parentScenarioId = S THEN 1 ELSE 0

\* What does hold: building the tree terminates, no branch is in a tree
\* twice, and a branch whose chain of parent branches stays within its own
\* scenario and ends at a branch with no parent is in that scenario's tree.
C21_TreeTerminatesNoDuplicates ==
    /\ ParentsStoredEarlier(branching.branches)
    /\ \A S \in branching.scenarios :
          LET ids == TreeBranchIds(GetScenarioTree(branching, S).tree)
              bs == branching.branches
          IN  /\ \A i \in 1..Len(bs) : Occurrences(ids, bs[i].branchId) <= 1
              /\ \A i \in 1..Len(bs) :
                    (bs[i].parentScenarioId = S /\ ~ParentBranchTruthy(bs[i]))
                        => Occurrences(ids, bs[i].branchId) = 1

\* the standard deviation of the in-degrees calculateBalanceScore counts,
\* divided by (cs.length - 1), is at most 1:  sqrt(q) / m <= Len(cs) - 1
\* with variance q / m^2
NormalizedStdDevAtMostOne(cs) ==
    LET inDegree == InDegree(cs, BuildDependencyGraph(cs))
        m == Cardinality(DOMAIN inDegree)
        total == SumOver(inDegree, DOMAIN inDegree)
        squares == SumOver([k \in DOMAIN inDegree |-> inDegree[k] * inDegree[k]],
                           DOMAIN inDegree)
        q == m * squares - total * total
        d == m * (Len(cs) - 1)
    IN  q >= 0 /\ q <= d * d

\* no dependencies array of cs holds an identifier twice
DistinctDependencies(cs) ==
    \A i \in 1..Len(cs) :
        \A j, k \in 1..Len(cs[i].dependencies) :
            cs[i].dependencies[j] = cs[i].dependencies[k] => j = k

\* createComponent payloads with up to three dependencies, repeats included
C22_ComponentPayloads ==
    {ComponentPayload(i, p, "d1", deps, {}, "pending", 0) :
        i \in GraphComponentIds, p \in ProblemIds,
        deps \in SeqsUpTo(GraphComponentIds, 3)}

(***************************************************************************)
(* C22.  In every reachable state and for every problem with at least two  *)
(* components, the population standard deviation of the in-degrees that    *)
(* calculateBalanceScore uses, divided by (componentCount - 1), lies in    *)
(* [0, 1].  Checked in every state and in the state every createComponent  *)
(* leaves: a dependencies array may name one component several times, each *)
(* occurrence counts, and the quotient exceeds 1.                          *)
(***************************************************************************)
C22_NormalizedStdDevInUnitInterval ==
    \A data \in C22_ComponentPayloads :
        LET r == CreateComponent(EngineState, data, now)
        IN  \A st \in {EngineState, r.st} :
                \A p \in DOMAIN st.problems :
                    LET cs == ComponentsOf(st.components, p)
                    IN  Len(cs) >= 2 => NormalizedStdDevAtMostOne(cs)

\* What does hold: the quotient is at most 1 when no dependencies array
\* names a component twice.
C22_DistinctDependenciesInUnitInterval ==
    \A data \in C22_ComponentPayloads :
        LET r == CreateComponent(EngineState, data, now)
        IN  \A st \in {EngineState, r.st} :
                \A p \in DOMAIN st.problems :
                    LET cs == ComponentsOf(st.components, p)
                    IN  Len(cs) >= 2 /\ DistinctDependencies(cs)
                            => NormalizedStdDevAtMostOne(cs)

(***************************************************************************)
(* C23.  In every reachable state, the parentProblemId of every stored     *)
(* component is the identifier of a stored problem.  updateComponent       *)
(* stores the payload's parentProblemId without looking it up, so it       *)
(* breaks this.                                                            *)
(***************************************************************************)
C23_ParentProblemStored ==
    \A i \in 1..Len(components) : components[i].parentProblemId \in DOMAIN problems

\* What does hold: the component a successful createComponent stores has a
\* parent that the lookup of createComponent accepts.
C23_ParentAcceptedAtCreation ==
    [][\A data \in ComponentPayloads :
          LET r == CreateComponent(EngineState, data, now)
          IN  (last'.action = "createComponent" /\ last'.status = "success"
               /\ components' = r.st.components /\ r.status = "success")
                  => ProblemTruthy(problems', components'[Len(components')].parentProblemId)]_vars

(***************************************************************************)
(* C24.  In every reachable state, every identifier in the dependency list *)
(* of every stored component is the identifier of a stored component, so   *)
(* the reachability walk of linkComponents between two stored components   *)
(* never reads the dependencies of a missing component.  updateComponent   *)
(* stores the payload's dependencies without looking them up, so it breaks *)
(* this.                                                                   *)
(***************************************************************************)
C24_DependenciesStored ==
    /\ AllDependenciesStored(components)
    /\ \A sourceId \in StoredIds(components), targetId \in StoredIds(components) :
          LinkComponents(EngineState, sourceId, targetId, now).error # "TypeError"

\* What does hold: every dependency of the component a successful
\* createComponent stores is one that the lookup of createComponent accepts.
C24_DependenciesAcceptedAtCreation ==
    \A data \in ComponentPayloads :
        LET r == CreateComponent(EngineState, data, now)
            stored == r.st.components[Len(r.st.components)]
        IN  r.status = "success"
                => \A j \in 1..Len(stored.dependencies) :
                       ComponentTruthy(components, stored.dependencies[j])

(***************************************************************************)
(* C25.  A successful updateComponent changes only the component's         *)
(* description, status, complexity, metadata and updated timestamp: its    *)
(* componentId, parentProblemId, dependency list and creation timestamp    *)
(* are after the call what they were before, and every other component is  *)
(* untouched, so an edge once established stays.  updateComponent replaces *)
(* the stored component by the payload, parentProblemId and dependencies   *)
(* included, so it breaks this.                                            *)
(***************************************************************************)
C25_UpdateKeepsIdentityAndEdges ==
    \A data \in ComponentPayloads, later \in {now, now + 1} :
        LET r == UpdateComponent(EngineState, data, later)
            idx == ComponentIndex(components, data.componentId)
        IN  (r.status = "success" /\ idx # 0) =>
                /\ Len(r.st.components) = Len(components)
                /\ \A i \in 1..Len(components) :
                      /\ r.st.components[i].componentId = components[i].componentId
                      /\ r.st.components[i].parentProblemId = components[i].parentProblemId
                      /\ r.st.components[i].name = components[i].name
                      /\ r.st.components[i].dependencies = components[i].dependencies
                      /\ r.st.components[i].createdAt = components[i].createdAt
                      /\ i # idx => r.st.components[i] = components[i]

\* What does hold: the componentId and the creation timestamp of the updated
\* component are kept, updatedAt is the time of the call, and every other
\* component is untouched.
C25_UpdateKeepsIdAndCreatedAt ==
    \A data \in ComponentPayloads, later \in {now, now + 1} :
        LET r == UpdateComponent(EngineState, data, later)
            idx == ComponentIndex(components, data.componentId)
        IN  (r.status = "success" /\ idx # 0) =>
                /\ Len(r.st.components) = Len(components)
                /\ r.st.components[idx].updatedAt = later
                /\ \A i \in 1..Len(components) :
                      /\ r.st.components[i].componentId = components[i].componentId
                      /\ r.st.components[i].createdAt = components[i].createdAt
                      /\ i # idx => r.st.components[i] = components[i]

\* the errors the validate*Data functions raise
ValidationErrors ==
    {"Invalid problemStatement", "Invalid problemId", "Invalid complexity",
     "Invalid componentId", "Invalid parentProblemId", "Invalid name",
     "Invalid description", "Invalid status", "Invalid phaseId", "Invalid phaseName"}

\* malformed problem payloads that name a stored or an absent problem
C26_MalformedProblems ==
    {ProblemPayload(i, "", {}, 0) : i \in ProblemIds}
    \cup {ProblemPayload(i, "s1", {"complexity"}, c) : i \in ProblemIds, c \in {0, 11}}

\* malformed component payloads that name a stored or an absent component,
\* parent and dependency
C26_MalformedComponents ==
    UNION {{ComponentPayload(i, p, "", deps, {}, "pending", 0),
            ComponentPayload(i, p, "d1", deps, {"status"}, "done", 0),
            ComponentPayload(i, p, "d1", deps, {"complexity"}, "pending", 11),
            ComponentPayload(i, "", "d1", deps, {}, "pending", 0)} :
              i \in ComponentIds, p \in ProblemIds, deps \in {<<>>, <<"c3">>}}

\* a malformed payload is refused by its validation error, whatever it names
C26_ValidationFirst ==
    /\ \A data \in C26_MalformedProblems :
          \A r \in {CreateProblem(EngineState, data, now),
                    UpdateProblem(EngineState, data, now)} :
              r.status = "failed" /\ r.error \in ValidationErrors /\ r.st = EngineState
    /\ \A data \in C26_MalformedComponents :
          \A r \in {CreateComponent(EngineState, data, now),
                    UpdateComponent(EngineState, data, now)} :
              r.status = "failed" /\ r.error \in ValidationErrors /\ r.st = EngineState

\* createComponent, for well-formed payloads over the given names: a stored
\* componentId is reported first, then a parent problem that is not stored,
\* then a dependency that is not stored
C26_LookupOrder(componentNames, problemNames) ==
    \A i \in componentNames, p \in problemNames, dep \in componentNames :
        LET data == ComponentPayload(i, p, "d1", <<dep>>, {}, "pending", 0)
            r == CreateComponent(EngineState, data, now)
            duplicate == i \in StoredIds(components)
            noParent == p \notin DOMAIN problems
            noDependency == dep \notin StoredIds(components)
        IN  /\ duplicate => r.error = "Component already exists"
            /\ (~duplicate /\ noParent) => r.error = "Parent problem does not exist"
            /\ (~duplicate /\ ~noParent /\ noDependency)
                  => r.error = "Dependency component does not exist"

(***************************************************************************)
(* C26.  Shape validation precedes every store lookup: a payload that is   *)
(* malformed and names a duplicate or a missing identifier is refused with *)
(* the validation error; and createComponent reports a duplicate           *)
(* componentId before a missing parent problem, and a missing parent       *)
(* problem before a missing dependency.  The lookups are reads of object   *)
(* literals: a parent problem named "constructor" is not stored and is     *)
(* not reported, so the missing dependency is reported in its place.       *)
(***************************************************************************)
C26_ValidationThenLookupOrder ==
    /\ C26_ValidationFirst
    /\ C26_LookupOrder(ComponentIds \cup {"c3"} \cup InheritedKeys,
                       ProblemIds \cup InheritedKeys)

\* What does hold: validation comes first, and the three lookups come in the
\* order stated for every name that Object.prototype does not have.
C26_OrderForOwnNames ==
    /\ C26_ValidationFirst
    /\ C26_LookupOrder(ComponentIds \cup {"c3"}, ProblemIds)

(***************************************************************************)
(* C27.  Requests are processed one at a time, each to completion: between *)
(* the reachability check and the append of one linkComponents no step of  *)
(* another request runs, so the check still holds when the edge is         *)
(* appended; of linkComponents(a, b) and linkComponents(b, a), in either   *)
(* order of arrival, at most one succeeds, and the graph stays acyclic.    *)
(***************************************************************************)
C27_OneRequestAtATime ==
    /\ Cardinality(inFlight.running) <= 1
    /\ \A req \in inFlight.running : LinkCheckError(EngineState, req[1], req[2]) = "none"
    /\ \A a \in ComponentIds, b \in ComponentIds :
          ~({<<a, b>>, <<b, a>>} \subseteq inFlight.succeeded /\ a # b)
    /\ Acyclic(components)

\* linkComponents(c1, c2) is past its checks while linkComponents(c2, c1)
\* waits in the transport
C27_Witness ==
    /\ inFlight.running = {<<"c1", "c2">>}
    /\ Len(inFlight.inbox) > 0
    /\ Head(inFlight.inbox) = <<"c2", "c1">>
    /\ ~EdgeExists(components, "c1", "c2")

\* The two steps make up the case: checks, then append.
C27_StepsMakeUpLinkComponents ==
    \A sourceId \in ComponentIdArgs, targetId \in ComponentIdArgs :
        LET err == LinkCheckError(EngineState, sourceId, targetId)
        IN  LinkComponents(EngineState, sourceId, targetId, now)
                = IF err # "none" THEN Failed(EngineState, err)
                  ELSE LinkAppend(EngineState, sourceId, targetId, now)

\* a step of the walk of calculateMaxDepth that meets nodeId while nodeId is
\* on the current path: the depth it contributes
OnPathDepth(graph, nodeId) ==
    Dfs(graph, nodeId, [visited |-> {nodeId}, depths |-> <<>>]).depth

(***************************************************************************)
(* C28.  calculateMetrics returns a metrics record, and raises no error,   *)
(* for every stored problem in every state, a state whose dependency graph *)
(* has a cycle or a dependency on a missing or a foreign component         *)
(* included; a dependency that is on the current depth-first path          *)
(* contributes depth 0: a component whose one dependency is itself has     *)
(* depth 1, and two components that depend on each other give maxDepth 2.  *)
(***************************************************************************)
C28_MetricsNeverThrow ==
    \A p \in DOMAIN problems :
        LET cs == ComponentsOf(components, p)
            graph == BuildDependencyGraph(cs)
            metrics == CalculateMetrics(components, p)
        IN  /\ ProblemQuery(EngineState, p) = Success(EngineState)
            /\ metrics.componentCount = Len(cs)
            /\ metrics.maxDepth \in 0..(Len(cs) + 1)
            /\ Len(cs) > 0 => metrics.maxDepth >= 1
            /\ metrics.dependencyCount = Cardinality(
                   UNION {{<<i, j>> : j \in 1..Len(cs[i].dependencies)} : i \in 1..Len(cs)})
            /\ ScoreAtLeast1(metrics.balanceScore) /\ ScoreAtMost10(metrics.balanceScore)
            /\ \A i \in 1..Len(cs) :
                  /\ OnPathDepth(graph, cs[i].componentId) = 0
                  /\ cs[i].dependencies = <<cs[i].componentId>>
                        => Dfs(graph, cs[i].componentId,
                               [visited |-> {}, depths |-> <<>>]).depth = 1
            /\ (/\ Len(cs) = 2
                /\ cs[1].dependencies = <<cs[2].componentId>>
                /\ cs[2].dependencies = <<cs[1].componentId>>) => metrics.maxDepth = 2

\* calculateMetrics answered for a problem whose two components depend on each
\* other
C28_Witness ==
    /\ last = [action |-> "calculateMetrics", status |-> "success", error |-> "none"]
    /\ "p1" \in DOMAIN problems
    /\ Len(components) = 2
    /\ \A i \in 1..2 : components[i].parentProblemId = "p1"
    /\ EdgeExists(components, "c1", "c2")
    /\ EdgeExists(components, "c2", "c1")

(***************************************************************************)
(* C29.  startPhase with well-formed phaseData succeeds in every state,    *)
(* also when the history already holds a phase with the same phaseId: the  *)
(* call adds one more record, open and with placeholder metrics, and       *)
(* leaves the earlier records as they are, so the history can hold several *)
(* records with one phaseId and several open phases.                       *)
(***************************************************************************)
C29_StartPhaseAlwaysSucceeds ==
    \A data \in HistoryPhasePayloads :
        LET r == StartPhase(EngineState, data, now)
            n == Len(decompositionPhases)
        IN  /\ ValidatePhaseError(data) = "none"
            /\ r.status = "success"
            /\ Len(r.st.decompositionPhases) = n + 1
            /\ SubSeq(r.st.decompositionPhases, 1, n) = decompositionPhases
            /\ r.st.decompositionPhases[n + 1].phaseId = data.phaseId
            /\ r.st.decompositionPhases[n + 1].startedAt = now
            /\ r.st.decompositionPhases[n + 1].completedAt = NoTime
            /\ r.st.decompositionPhases[n + 1].metrics = ZeroMetrics

\* the history holds two open phases with one phaseId, the second just started
C29_Witness ==
    /\ last = [action |-> "startPhase", status |-> "success", error |-> "none"]
    /\ Len(decompositionPhases) = 2
    /\ decompositionPhases[1].phaseId = decompositionPhases[2].phaseId
    /\ decompositionPhases[1].completedAt = NoTime
    /\ decompositionPhases[2].completedAt = NoTime

(***************************************************************************)
(* C30.  completePhase is idempotent in effect: a second                   *)
(* completePhase(phaseId, problemId) with no mutating action in between    *)
(* succeeds again and leaves the phase with the metrics snapshot of the    *)
(* first call, and everything but the completion time as it was; a         *)
(* repeated call after a component was created overwrites the snapshot     *)
(* with the metrics computed at that call.                                 *)
(***************************************************************************)
C30_CompletePhaseIdempotent ==
    \A phaseId \in HistoryPhaseIdArgs, problemId \in HistoryProblemIdArgs :
        LET first == CompletePhase(EngineState, phaseId, problemId, now)
            k == FindPhaseIndex(decompositionPhases, phaseId) + 1
        IN  first.status = "success" =>
                /\ \A later \in {now, now + 1} :
                      LET second == CompletePhase(first.st, phaseId, problemId, later)
                      IN  /\ second.status = "success"
                          /\ second.st.decompositionPhases[k].metrics
                                = first.st.decompositionPhases[k].metrics
                          /\ second.st =
                                [first.st EXCEPT
                                    !.decompositionPhases[k].completedAt = later]
                /\ \A data \in HistoryComponentPayloads :
                      LET created == CreateComponent(first.st, data, now)
                          again == CompletePhase(created.st, phaseId, problemId, now)
                      IN  created.status = "success" =>
                              /\ again.status = "success"
                              /\ again.st.decompositionPhases[k].metrics
                                    = CalculateMetrics(created.st.components, problemId)
                              /\ problemId = data.parentProblemId =>
                                    again.st.decompositionPhases[k].metrics
                                        # first.st.decompositionPhases[k].metrics

\* a phase completed for p1 when p1 had one component; the second component
\* can still be created
C30_Witness ==
    /\ last = [action |-> "completePhase", status |-> "success", error |-> "none"]
    /\ Len(decompositionPhases) >= 1
    /\ decompositionPhases[1].completedAt # NoTime
    /\ decompositionPhases[1].metrics.componentCount = 1
    /\ Len(components) = 1
    /\ "p1" \in DOMAIN problems

\* the requests for the six actions that write to the problem store, the
\* component store or the end of the phase history
C31_WritingRequests ==
    {req \in Requests :
        req[1] \in {"createComponent", "updateComponent", "linkComponents",
                    "createProblem", "updateProblem", "startPhase"}}

(***************************************************************************)
(* C31.  The metrics snapshot of a phase is a point-in-time value: once    *)
(* completePhase has stored it, no createComponent, updateComponent,       *)
(* linkComponents, createProblem, updateProblem or startPhase, accepted or *)
(* refused, changes the metrics (or any other field) of that phase; and a  *)
(* completePhase changes the record it resolves to and no other.           *)
(***************************************************************************)
C31_SnapshotIsPointInTime ==
    /\ \A req \in C31_WritingRequests :
          LET r == ProcessRequest(EngineState, req[1], req[2], now)
          IN  \A i \in 1..Len(decompositionPhases) :
                  /\ Len(r.st.decompositionPhases) >= i
                  /\ r.st.decompositionPhases[i] = decompositionPhases[i]
    /\ \A phaseId \in PhaseIdArgs, problemId \in ProblemIdArgs :
          LET r == CompletePhase(EngineState, phaseId, problemId, now)
              k == FindPhaseIndex(decompositionPhases, phaseId) + 1
          IN  \A i \in 1..Len(decompositionPhases) :
                  (r.status = "failed" \/ i # k)
                      => r.st.decompositionPhases[i] = decompositionPhases[i]

\* a phase was completed when p1 had one component, and a second component of
\* p1 has been created since: the snapshot still counts one
C31_Witness ==
    /\ last = [action |-> "createComponent", status |-> "success", error |-> "none"]
    /\ Len(decompositionPhases) >= 1
    /\ decompositionPhases[1].completedAt # NoTime
    /\ decompositionPhases[1].metrics.componentCount = 1
    /\ Len(ComponentsOf(components, "p1")) = 2

\* component records of the problems other than p, of either complexity and
\* with every dependencies array of UpdateDependencyLists
C32_OtherComponents(p) ==
    {ValidateComponentData(ComponentPayload(i, q, "d1", deps, {"complexity"}, "pending", c), now) :
        i \in GraphComponentIds, q \in ProblemIds \ {p},
        deps \in UpdateDependencyLists, c \in {1, 9}}

\* component stores that differ from cs in components of other problems: those
\* components dropped, one of them replaced, or one more of them stored
C32_Variants(cs, p) ==
    {ComponentsOf(cs, p)}
    \cup {[cs EXCEPT ![i] = o] :
             i \in {j \in 1..Len(cs) : cs[j].parentProblemId # p},
             o \in C32_OtherComponents(p)}
    \cup {Append(cs, o) : o \in C32_OtherComponents(p)}

\* the stores that createComponent, updateComponent and linkComponents leave
\* when they act on a component of a problem other than p
C32_AfterOtherProblemCalls(p) ==
    {CreateComponent(EngineState, data, now).st.components :
        data \in {d \in UpdateComponentPayloads : d.parentProblemId # p}}
    \cup {UpdateComponent(EngineState, data, now).st.components :
             data \in {d \in UpdateComponentPayloads :
                         /\ d.parentProblemId # p
                         /\ \A i \in 1..Len(components) :
                               components[i].componentId = d.componentId
                                   => components[i].parentProblemId # p}}
    \cup {LinkComponents(EngineState, sourceId, targetId, now).st.components :
             sourceId \in {components[i].componentId :
                             i \in {j \in 1..Len(components) :
                                      components[j].parentProblemId # p}},
             targetId \in GraphComponentIds}

C33_CompletedNotBeforeStarted ==
    \A i \in 1..Len(decompositionPhases) :
        decompositionPhases[i].completedAt # NoTime
            => decompositionPhases[i].completedAt >= decompositionPhases[i].startedAt

\* a step keeps every phase record in its place and every closed one closed,
\* and a step that starts a phase leaves every earlier record as it was
C33_ClosedStaysClosed ==
    \A i \in 1..Len(decompositionPhases) :
        /\ Len(decompositionPhases') >= i
        /\ decompositionPhases'[i].startedAt = decompositionPhases[i].startedAt
        /\ decompositionPhases[i].completedAt # NoTime
              => decompositionPhases'[i].completedAt # NoTime
        /\ Len(decompositionPhases') > Len(decompositionPhases)
              => decompositionPhases'[i] = decompositionPhases[i]

(***************************************************************************)
(* C33.  Phase closure is permanent: a phase record whose completedAt is   *)
(* set has it set in every later state, its completedAt is never earlier   *)
(* than its startedAt (the clock never runs backwards), and a startPhase   *)
(* neither closes nor alters any record the history already holds.         *)
(***************************************************************************)
C33_PhaseClosurePermanent ==
    /\ []C33_CompletedNotBeforeStarted
    /\ [][C33_ClosedStaysClosed]_vars

\* a phase was started, closed after time had passed, and a second phase has
\* just been started: the first is still closed and the second is open
C33_Witness ==
    /\ last = [action |-> "startPhase", status |-> "success", error |-> "none"]
    /\ Len(decompositionPhases) = 2
    /\ decompositionPhases[1].completedAt > decompositionPhases[1].startedAt
    /\ decompositionPhases[2].completedAt = NoTime
    /\ decompositionPhases[2].startedAt >= decompositionPhases[1].completedAt

\* every dependency of the components of problem p is a component of p
C34_DependenciesInside(cs, p) ==
    \A i \in 1..Len(ComponentsOf(cs, p)) :
        \A j \in 1..Len(ComponentsOf(cs, p)[i].dependencies) :
            ComponentsOf(cs, p)[i].dependencies[j] \in StoredIds(ComponentsOf(cs, p))

(***************************************************************************)
(* C34.  As stated: in every reachable state and for every problem, the    *)
(* maxDepth that calculateMetrics reports satisfies                        *)
(* 0 <= maxDepth <= componentCount, and maxDepth = 0 exactly when          *)
(* componentCount = 0.                                                     *)
(***************************************************************************)
C34_MaxDepthAtMostCount ==
    \A p \in ProblemIds :
        LET metrics == CalculateMetrics(components, p)
        IN  /\ 0 <= metrics.maxDepth
            /\ metrics.maxDepth <= metrics.componentCount
            /\ metrics.maxDepth = 0 <=> metrics.componentCount = 0

(***************************************************************************)
(* C34, amended.  In every reachable state and for every problem,          *)
(* 0 <= maxDepth <= componentCount + 1, with maxDepth = 0 exactly when     *)
(* componentCount = 0; maxDepth <= componentCount when every dependency of *)
(* the problem's components is itself a component of the problem.  A       *)
(* dependency outside the problem, or on no stored component, counts as    *)
(* one more level.                                                         *)
(***************************************************************************)
C34_MaxDepthAtMostCountPlusOne ==
    \A p \in ProblemIds :
        LET metrics == CalculateMetrics(components, p)
        IN  /\ 0 <= metrics.maxDepth
            /\ metrics.maxDepth <= metrics.componentCount + 1
            /\ metrics.maxDepth = 0 <=> metrics.componentCount = 0
            /\ C34_DependenciesInside(components, p)
                  => metrics.maxDepth <= metrics.componentCount

\* metrics have been computed while a problem has one component and that
\* component depends on a component of the other problem: maxDepth is 2
C34_Witness ==
    /\ last = [action |-> "calculateMetrics", status |-> "success", error |-> "none"]
    /\ \E p \in ProblemIds :
          /\ p \in DOMAIN problems
          /\ CalculateMetrics(components, p).componentCount = 1
          /\ CalculateMetrics(components, p).maxDepth = 2
          /\ ComponentsOf(components, p)[1].dependencies[1] \in StoredIds(components)

\* the distinct dependency edges that leave the components of problem p
C35_EdgesLeaving(cs, p) ==
    {e \in Edges(cs) : e[1] \in StoredIds(ComponentsOf(cs, p))}

(***************************************************************************)
(* C35.  In every reachable state the dependency list of every stored      *)
(* component holds no identifier twice, so the dependencyCount of a        *)
(* problem is the number of distinct dependency edges that leave its       *)
(* components.  Checked in every state and in the state every              *)
(* createComponent leaves, a payload whose dependencies array repeats an   *)
(* identifier included.                                                    *)
(***************************************************************************)
C35_DependencyListsAreSets ==
    \A data \in C22_ComponentPayloads :
        LET r == CreateComponent(EngineState, data, now)
        IN  \A st \in {EngineState, r.st} :
                /\ DistinctDependencies(st.components)
                /\ \A p \in DOMAIN st.problems :
                      CalculateMetrics(st.components, p).dependencyCount
                          = Cardinality(C35_EdgesLeaving(st.components, p))

\* What does hold: linkComponents never makes a list repeat an identifier.
C35_LinkKeepsListsDistinct ==
    DistinctDependencies(components)
        => \A sourceId \in GraphIdArgs, targetId \in GraphIdArgs :
               DistinctDependencies(
                   LinkComponents(EngineState, sourceId, targetId, now).st.components)

\* record j of the history has the phaseId of an earlier record
C36_LaterDuplicate(phases, j) ==
    \E i \in 1..(j - 1) : phases[i].phaseId = phases[j].phaseId

\* the later records of a shared phaseId are open, and completePhase writes to
\* the first record with the id, that none with the id was started before
C36_EarliestRecordResolved ==
    /\ \A j \in 1..Len(decompositionPhases) :
          C36_LaterDuplicate(decompositionPhases, j) =>
              /\ decompositionPhases[j].completedAt = NoTime
              /\ decompositionPhases[j].metrics = C16_PlaceholderMetrics
    /\ \A phaseId \in HistoryPhaseIdArgs, problemId \in HistoryProblemIdArgs :
          LET r == CompletePhase(EngineState, phaseId, problemId, now)
              k == FindPhaseIndex(decompositionPhases, phaseId) + 1
          IN  r.status = "success" =>
                  /\ decompositionPhases[k].phaseId = phaseId
                  /\ r.st.decompositionPhases[k].completedAt = now
                  /\ \A j \in 1..Len(decompositionPhases) :
                        /\ decompositionPhases[j].phaseId = phaseId =>
                              /\ j >= k
                              /\ decompositionPhases[j].startedAt
                                    >= decompositionPhases[k].startedAt
                        /\ j # k => r.st.decompositionPhases[j] = decompositionPhases[j]

(***************************************************************************)
(* C36.  When several phase records share one phaseId, completePhase       *)
(* resolves to the earliest-started of them: in every reachable state      *)
(* every later record with that id has completedAt unset and the           *)
(* placeholder metrics, no record with the id was started before the one   *)
(* completePhase writes to, and the call leaves every other record as it   *)
(* was.                                                                    *)
(***************************************************************************)
C36_CompletePhaseResolvesEarliest == []C36_EarliestRecordResolved

\* two records share a phaseId; the first was completed, with the metrics of a
\* component, after the second had been started, and the second is still open
C36_Witness ==
    /\ last = [action |-> "completePhase", status |-> "success", error |-> "none"]
    /\ Len(decompositionPhases) = 2
    /\ decompositionPhases[1].phaseId = decompositionPhases[2].phaseId
    /\ decompositionPhases[1].completedAt > decompositionPhases[2].startedAt
    /\ decompositionPhases[1].metrics.componentCount = 1
    /\ decompositionPhases[2].completedAt = NoTime

\* the requests for the five actions that only read
C37_QueryRequests ==
    {req \in Requests :
        req[1] \in {"calculateMetrics", "getDecomposition", "getComponentDetails",
                    "getProblemDetails", "getPhaseHistory"}}

(***************************************************************************)
(* C37.  The query actions calculateMetrics, getDecomposition,             *)
(* getComponentDetails, getProblemDetails and getPhaseHistory leave the    *)
(* whole engine state (problems, components, phase history,                *)
(* currentPhaseIndex) unchanged, whether the request succeeds or fails,    *)
(* and getPhaseHistory succeeds in every state, whatever its arguments,    *)
(* and returns the stored history and index.                               *)
(***************************************************************************)
C37_QueriesLeaveState ==
    \A req \in C37_QueryRequests :
        LET r == ProcessRequest(EngineState, req[1], req[2], now)
        IN  /\ r.st = EngineState
            /\ r.status \in {"success", "failed"}
            /\ req[1] = "getPhaseHistory" =>
                  /\ r.status = "success"
                  /\ GetPhaseHistoryReturned(r.st) =
                        [phases |-> decompositionPhases,
                         currentPhaseIndex |-> currentPhaseIndex]

\* a query has just failed in a state that holds a component and a phase with
\* a snapshot of it
C37_Witness ==
    /\ last.action = "getComponentDetails"
    /\ last.status = "failed"
    /\ Len(components) >= 1
    /\ Len(decompositionPhases) >= 1
    /\ decompositionPhases[1].metrics.componentCount >= 1

\* the state as it is, and as it is once a phase has been started
C38_States ==
    {EngineState, StartPhase(EngineState, PhasePayload("ph1", "n", "d"), now).st}

(***************************************************************************)
(* C38.  A successful linkComponents(sourceId, targetId) that adds a new   *)
(* edge changes only the source component's dependency list, which gets    *)
(* targetId appended at its end, and its updated timestamp, which becomes  *)
(* the time of the call: the other fields of the source, every other       *)
(* component, the order of the components, every problem, the phase        *)
(* history and currentPhaseIndex are as before.                            *)
(***************************************************************************)
C38_LinkChangesOnlySource ==
    \A st \in C38_States, sourceId \in GraphIdArgs, targetId \in GraphIdArgs :
        LET r == LinkComponents(st, sourceId, targetId, now + 1)
            old == st.components
            new == r.st.components
            src == ComponentIndex(old, sourceId)
        IN  (/\ r.status = "success"
             /\ ~EdgeExists(old, sourceId, targetId)) =>
                /\ r.st.problems = st.problems
                /\ r.st.decompositionPhases = st.decompositionPhases
                /\ r.st.currentPhaseIndex = st.currentPhaseIndex
                /\ Len(new) = Len(old)
                /\ \A i \in 1..Len(old) : i # src => new[i] = old[i]
                /\ src \in 1..Len(old)
                /\ new[src].dependencies = old[src].dependencies \o <<targetId>>
                /\ new[src].updatedAt = now + 1
                /\ new[src] = [old[src] EXCEPT !.dependencies = new[src].dependencies,
                                               !.updatedAt = new[src].updatedAt]

\* linkComponents has just added a second dependency to a component that was
\* created with one, in a store of three components
C38_Witness ==
    /\ last = [action |-> "linkComponents", status |-> "success", error |-> "none"]
    /\ Len(components) = 3
    /\ \E i \in 1..Len(components) :
          /\ Len(components[i].dependencies) = 2
          /\ components[i].dependencies[1] # components[i].dependencies[2]

\* path is a closed walk of the graph: two entries or more, the first equal to
\* the last, and every entry followed by one of its successors
C39_ClosedWalk(path, edges) ==
    /\ Len(path) >= 2
    /\ path[1] = path[Len(path)]
    /\ \A i \in 1..(Len(path) - 1) :
          \E j \in 1..Len(edges) : edges[j] = <<path[i], path[i + 1]>>

(***************************************************************************)
(* C39.  Whenever detectCycle returns hasCycle = true, its cyclePath is a  *)
(* closed walk of the input graph: it has at least two entries, its first  *)
(* and last entries are the same node, and every consecutive pair of       *)
(* entries is an edge of the input.                                        *)
(***************************************************************************)
C39_CyclePathIsClosedWalk ==
    (/\ toolCall.tool = "cycle_detection"
     /\ toolCall.returned
     /\ toolCall.result.hasCycle) =>
        C39_ClosedWalk(toolCall.result.cyclePath, toolCall.edges)

\* What does hold: a reported cyclePath is the one node at which the search
\* closed the cycle, the last entry of the path the search had built.
C39_CyclePathIsOneNode ==
    (/\ toolCall.tool = "cycle_detection"
     /\ toolCall.returned
     /\ toolCall.result.hasCycle) =>
        /\ Len(toolCall.result.cyclePath) = 1
        /\ \E j \in 1..Len(toolCall.edges) :
              toolCall.edges[j][2] = toolCall.result.cyclePath[1]
====
